---- MODULE Spec2Model ----
(***************************************************************************)
(* Model of the repository-grouping engine of github-explorer2:           *)
(* GroupManager (classification), RepositoryFinder (discovery),            *)
(* RepositoryProcessor (reorganize / ungrouped display / rollback),        *)
(* GroupDisplayManager (selection), NavigationManager and the             *)
(* orchestrator GitHubGitLabTheme (mutation observer, debounce, passes).   *)
(*                                                                         *)
(* Strings are sequences of one-character strings, so that indexOf,        *)
(* substring, startsWith, toLowerCase, toUpperCase and trim are computed   *)
(* as the code computes them.                                              *)
(***************************************************************************)
EXTENDS Integers, Sequences, FiniteSets, TLC

VARIABLES
  doc,                 \* the foreign document: sequence of top-level list elements
  existingControls,    \* the document holds an element .gitlab-group-controls
  processedContainers, \* RepositoryFinder.processedContainers (set of element ids)
  isProcessing,        \* GitHubGitLabTheme.isProcessing
  pass,                \* the running pass of processRepositories: its remaining containers
  activePasses,        \* number of processRepositories bodies between flag set and finally
  groupingEnabled,     \* GitHubGitLabTheme.groupingEnabled
  customGroups,        \* GitHubGitLabTheme.customGroups (a Set, in insertion order)
  gmCustomGroups,      \* GroupManager.customGroups (a Set, in insertion order)
  observer,            \* GitHubGitLabTheme.observer is connected
  debounceTimer,       \* GitHubGitLabTheme.debounceTimer (last timer handle or 0)
  timers,              \* pending timers of the event loop
  location,            \* window.location.href of the foreign page
  repoPage,            \* what PageDetector.isRepositoryPage() returns for the page
  currentUrl,          \* NavigationManager.currentUrl
  navObserver,         \* NavigationManager.observer is connected
  currentActiveGroup,  \* GroupDisplayManager.currentActiveGroup
  quiet,               \* history: a pass has completed and the page and the user were idle since
  burst,               \* history: relevant mutation batches and debounced callbacks of the current burst
  last,                \* history: the last operation that ran, with its arguments
  gItems,              \* input of extractGroups under SpecGroups
  gName,               \* input of getGroupName under SpecNames
  gGroups,             \* result of extractGroups under SpecGroups
  storage              \* the storage layers of StorageManager: Dexie table, localStorage, cookie

domVars   == <<doc, processedContainers>>
passVars  == <<isProcessing, pass, activePasses>>
setVars   == <<groupingEnabled, customGroups, gmCustomGroups>>
watchVars == <<observer, debounceTimer, timers, burst>>
navVars   == <<location, repoPage, currentUrl, navObserver>>
pureVars  == <<gItems, gName, gGroups, storage>>
vars      == <<doc, existingControls, processedContainers, isProcessing, pass, activePasses,
               groupingEnabled, customGroups, gmCustomGroups, observer,
               debounceTimer, timers, location, repoPage,
               currentUrl, navObserver, currentActiveGroup, quiet, burst, last, gItems, gName,
               gGroups, storage>>

----------------------------------------------------------------------------
(* Strings *)

GENERAL == <<"G", "e", "n", "e", "r", "a", "l">>
ALL     == <<"a", "l", "l">>

\* String.prototype.toLowerCase / toUpperCase on one character
LowerChar(c) ==
  CASE c = "A" -> "a" [] c = "B" -> "b" [] c = "C" -> "c" [] c = "D" -> "d"
    [] c = "X" -> "x" [] c = "Y" -> "y" [] c = "Z" -> "z" [] OTHER -> c

UpperChar(c) ==
  CASE c = "a" -> "A" [] c = "b" -> "B" [] c = "c" -> "C" [] c = "d" -> "D"
    [] c = "x" -> "X" [] c = "y" -> "Y" [] c = "z" -> "Z" [] OTHER -> c

toLowerCase(s) == [i \in 1..Len(s) |-> LowerChar(s[i])]

\* indexOf that counts positions from 1, with 0 for no occurrence
indexOfOneBased(s, ch) ==
  IF \E i \in 1..Len(s) : s[i] = ch
  THEN CHOOSE i \in 1..Len(s) : s[i] = ch /\ \A j \in 1..(i - 1) : s[j] # ch
  ELSE 0

\* String.prototype.indexOf: 0-based index of the first occurrence, or -1
indexOf(s, ch) ==
  IF \E i \in 1..Len(s) : s[i] = ch
  THEN (CHOOSE i \in 1..Len(s) : s[i] = ch /\ \A j \in 1..(i - 1) : s[j] # ch) - 1
  ELSE -1

\* String.prototype.substring(0, n)
substring0(s, n) == SubSeq(s, 1, n)

\* String.prototype.startsWith
startsWith(s, p) == Len(p) <= Len(s) /\ SubSeq(s, 1, Len(p)) = p

\* String.prototype.trim
RECURSIVE trimStart(_)
trimStart(s) == IF s # <<>> /\ Head(s) = " " THEN trimStart(Tail(s)) ELSE s
RECURSIVE trimEnd(_)
trimEnd(s) ==
  IF s # <<>> /\ s[Len(s)] = " " THEN trimEnd(SubSeq(s, 1, Len(s) - 1)) ELSE s
trim(s) == trimEnd(trimStart(s))

----------------------------------------------------------------------------
(* The items of the foreign page *)

MaxItems == 6

\* textContent of the name element of item i
ItemText(i) ==
  CASE i = 1 -> <<"a", "b", "-", "x">>
    [] i = 2 -> <<"a", "b", "_", "y">>
    [] i = 3 -> <<"c", "d", "-", "z">>
    [] i = 4 -> <<"x">>
    [] i = 5 -> <<" ", "A", "B", ".", "c", " ">>
    [] i = 6 -> <<"y">>
    [] OTHER -> <<>>

\* an item node of the page; tag records the copies (cloneNode "c", innerHTML
\* re-parse "h") that lead from the page's node to this one
Item(i) == [t |-> "item", id |-> i, tag |-> <<>>]

\* the itemSelectors of findRepositoryItems and the nameSelectors of
\* getRepositoryName, by their position in the lists; the query of
\* findRepositoryItems for a name element joins the first six nameSelectors
NumItemSelectors    == 15
NumNameSelectors    == 7
FinderNameSelectors == 6

\* the itemSelectors that match item i: items 1 to 6 are '.repo-list-item'
\* nodes, item 7 matches '[itemprop="owns"]' and 'li[itemprop="owns"]', item 9
\* is a '.Box-row'
ItemSelectorsOf(i) ==
  CASE i = 7 -> {1, 9}
    [] i = 9 -> {13}
    [] OTHER -> {3}

\* the elements below item i that a nameSelector matches, in document order,
\* with the selectors that match them and their textContent: items 1 to 7
\* hold an 'h3 a', item 8 holds none, item 9 a '.Link--primary' of white
\* space, item 10 only an 'a[href*="/"][title]', item 11 an empty 'h3 a' and
\* an '[itemprop="name"]'
NameElements(i) ==
  CASE i = 7  -> <<[sels |-> {1}, text |-> ItemText(1)]>>
    [] i = 8  -> <<>>
    [] i = 9  -> <<[sels |-> {6}, text |-> <<" ", " ">>]>>
    [] i = 10 -> <<[sels |-> {7}, text |-> <<"c", "d">>]>>
    [] i = 11 -> <<[sels |-> {1}, text |-> <<>>],
                   [sels |-> {5}, text |-> <<"c", "d", "-", "z">>]>>
    [] OTHER  -> <<[sels |-> {1}, text |-> ItemText(i)]>>

\* the for loop of getRepositoryName from nameSelector k on:
\* item.querySelector(selector) is the first element the selector matches
RECURSIVE nameFrom(_, _)
nameFrom(elements, k) ==
  IF k > NumNameSelectors THEN <<>>
  ELSE LET found == SelectSeq(elements, LAMBDA e : k \in e.sels)
       IN IF found # <<>> /\ trim(found[1].text) # <<>>
          THEN trim(found[1].text)
          ELSE nameFrom(elements, k + 1)

\* GroupManager.getRepositoryName: the trimmed text of the first name element
\* with non-empty text, or ''
getRepositoryName(item) == nameFrom(NameElements(item.id), 1)

----------------------------------------------------------------------------
(* GroupManager *)

\* the separators tried from the space back to the hyphen
separatorsReversed == <<" ", ".", "/", "_", "-">>

separators == <<"-", "_", "/", ".", " ">>

\* the first matching custom group, returned in lower case
RECURSIVE firstCustomMatchLower(_, _)
firstCustomMatchLower(repoName, cg) ==
  IF cg = <<>> THEN <<FALSE, <<>>>>
  ELSE IF startsWith(toLowerCase(repoName), toLowerCase(Head(cg)))
       THEN <<TRUE, toLowerCase(Head(cg))>>
       ELSE firstCustomMatchLower(repoName, Tail(cg))

\* the first custom group (in Set order) the lower-cased name starts with
RECURSIVE firstCustomMatch(_, _)
firstCustomMatch(repoName, cg) ==
  IF cg = <<>> THEN <<FALSE, <<>>>>
  ELSE IF startsWith(toLowerCase(repoName), toLowerCase(Head(cg)))
       THEN <<TRUE, Head(cg)>>
       ELSE firstCustomMatch(repoName, Tail(cg))

\* the loop over the separators that ends without the 'General' default
RECURSIVE separatorScanNoDefault(_, _)
separatorScanNoDefault(repoName, k) ==
  IF k > Len(separators) THEN <<>>
  ELSE LET index  == indexOf(repoName, separators[k])
           prefix == toLowerCase(substring0(repoName, index))
       IN IF index > 0 /\ Len(prefix) >= 2
          THEN <<UpperChar(prefix[1])>> \o Tail(prefix)
          ELSE separatorScanNoDefault(repoName, k + 1)

\* the loop over the separators, from separator k on
RECURSIVE separatorScan(_, _)
separatorScan(repoName, k) ==
  IF k > Len(separators) THEN GENERAL
  ELSE LET index  == indexOf(repoName, separators[k])
           prefix == toLowerCase(substring0(repoName, index))
       IN IF index > 0 /\ Len(prefix) >= 2
          THEN <<UpperChar(prefix[1])>> \o Tail(prefix)
          ELSE separatorScan(repoName, k + 1)

getGroupName(repoName, cg) ==
  IF repoName = <<>> THEN GENERAL
  ELSE LET m == firstCustomMatch(repoName, cg)
       IN IF m[1] THEN m[2] ELSE separatorScan(repoName, 1)

\* position of the group called name in the Map groups, or 0
groupIndex(groups, name) ==
  IF \E k \in 1..Len(groups) : groups[k].name = name
  THEN CHOOSE k \in 1..Len(groups) : groups[k].name = name
  ELSE 0

\* extractGroups with groups.set(groupName, [item]) for a group that exists
RECURSIVE extractGroupsOverwrite(_, _, _)
extractGroupsOverwrite(items, cg, groups) ==
  IF items = <<>> THEN groups
  ELSE LET groupName == getGroupName(getRepositoryName(Head(items)), cg)
           k         == groupIndex(groups, groupName)
           next      == IF k = 0
                        THEN Append(groups, [name |-> groupName, items |-> <<Head(items)>>])
                        ELSE [groups EXCEPT ![k].items = <<Head(items)>>]
       IN extractGroupsOverwrite(Tail(items), cg, next)

\* the forEach of GroupManager.extractGroups over the remaining items; the Map
\* of group name -> items is a sequence of entries in insertion order
RECURSIVE extractGroupsFrom(_, _, _)
extractGroupsFrom(items, cg, groups) ==
  IF items = <<>> THEN groups
  ELSE LET groupName == getGroupName(getRepositoryName(Head(items)), cg)
           k         == groupIndex(groups, groupName)
           next      == IF k = 0
                        THEN Append(groups, [name |-> groupName, items |-> <<Head(items)>>])
                        ELSE [groups EXCEPT ![k].items = Append(@, Head(items))]
       IN extractGroupsFrom(Tail(items), cg, next)

\* extractGroups that walks the items from the last to the first
extractGroupsReversed(items, cg) ==
  extractGroupsFrom([k \in 1..Len(items) |-> items[Len(items) + 1 - k]], cg, <<>>)

extractGroups(items, cg) == extractGroupsFrom(items, cg, <<>>)

\* Array.from(groups.values()).flat()
RECURSIVE flat(_)
flat(groups) == IF groups = <<>> THEN <<>> ELSE Head(groups).items \o flat(Tail(groups))

----------------------------------------------------------------------------
(* The document tree.                                                      *)
(*   item   [t, id, tag]        a repository item; tag records the copies  *)
(*                              (cloneNode "c", innerHTML re-parse "h")    *)
(*                              that lead from the page's node to this one *)
(*   furn   [t, id, tag]        a child of a container that is no item     *)
(*   cards  [t, owner, cards]   div.gitlab-cards-section with its cards    *)
(*   repos  [t, holders]        div.gitlab-repos-section with its holders  *)
(*   list   [t, eid, sel, cls, marker, gid, display, kids]                 *)
(*                              a list element: a container of the page or *)
(*                              a holder (.gitlab-repo-container)          *)
(***************************************************************************)

ClsRepoList == "js-repo-list"
ClsGrouped  == "gitlab-grouped-repositories"
ClsHolder   == "gitlab-repo-container"
NoGid       == <<"-">>

Furn(f) == [t |-> "furn", id |-> f, tag |-> <<>>]

\* the sequence s without the elements that fail Keep
RECURSIVE SelectNodes(_, _)
SelectNodes(s, keep) ==
  IF s = <<>> THEN <<>>
  ELSE IF Head(s) \in keep THEN <<Head(s)>> \o SelectNodes(Tail(s), keep)
       ELSE SelectNodes(Tail(s), keep)

Range(s) == {s[k] : k \in 1..Len(s)}

\* descendants of a node that are list elements, the node included, in
\* document order (what querySelectorAll returns)
RECURSIVE Lists(_)
RECURSIVE ListsOfSeq(_)
Lists(n) ==
  CASE n.t = "list"  -> <<n>> \o ListsOfSeq(n.kids)
    [] n.t = "repos" -> ListsOfSeq(n.holders)
    [] OTHER         -> <<>>
ListsOfSeq(s) == IF s = <<>> THEN <<>> ELSE Lists(Head(s)) \o ListsOfSeq(Tail(s))

\* item nodes below a node, in document order
RECURSIVE ItemsIn(_)
RECURSIVE ItemsOfSeq(_)
ItemsIn(n) ==
  CASE n.t = "item"  -> <<n>>
    [] n.t = "list"  -> ItemsOfSeq(n.kids)
    [] n.t = "repos" -> ItemsOfSeq(n.holders)
    [] OTHER         -> <<>>
ItemsOfSeq(s) == IF s = <<>> THEN <<>> ELSE ItemsIn(Head(s)) \o ItemsOfSeq(Tail(s))

\* cards sections below a node, in document order
RECURSIVE CardsIn(_)
RECURSIVE CardsOfSeq(_)
CardsIn(n) ==
  CASE n.t = "cards" -> <<n>>
    [] n.t = "list"  -> CardsOfSeq(n.kids)
    [] n.t = "repos" -> CardsOfSeq(n.holders)
    [] OTHER         -> <<>>
CardsOfSeq(s) == IF s = <<>> THEN <<>> ELSE CardsIn(Head(s)) \o CardsOfSeq(Tail(s))

\* repos sections below a node, in document order
RECURSIVE ReposIn(_)
RECURSIVE ReposOfSeq(_)
ReposIn(n) ==
  CASE n.t = "repos" -> <<n>> \o ReposOfSeq(n.holders)
    [] n.t = "list"  -> ReposOfSeq(n.kids)
    [] OTHER         -> <<>>
ReposOfSeq(s) == IF s = <<>> THEN <<>> ELSE ReposIn(Head(s)) \o ReposOfSeq(Tail(s))

\* the tree with the list element eid replaced by new
RECURSIVE ReplaceEl(_, _, _)
RECURSIVE ReplaceInSeq(_, _, _)
ReplaceEl(n, eid, new) ==
  CASE n.t = "list"  -> IF n.eid = eid THEN new
                        ELSE [n EXCEPT !.kids = ReplaceInSeq(@, eid, new)]
    [] n.t = "repos" -> [n EXCEPT !.holders = ReplaceInSeq(@, eid, new)]
    [] OTHER         -> n
ReplaceInSeq(s, eid, new) ==
  IF s = <<>> THEN <<>>
  ELSE <<ReplaceEl(Head(s), eid, new)>> \o ReplaceInSeq(Tail(s), eid, new)

\* all list elements of the document, in document order
DocLists == ListsOfSeq(doc)
InDoc(eid) == \E k \in 1..Len(DocLists) : DocLists[k].eid = eid
El(eid) == LET k == CHOOSE k \in 1..Len(DocLists) : DocLists[k].eid = eid
           IN DocLists[k]

\* nesting depth of holders below a node
RECURSIVE Depth(_)
RECURSIVE DepthOfSeq(_)
Depth(n) ==
  CASE n.t = "list"  -> 1 + DepthOfSeq(n.kids)
    [] n.t = "repos" -> DepthOfSeq(n.holders)
    [] OTHER         -> 0
DepthOfSeq(s) ==
  IF s = <<>> THEN 0
  ELSE LET a == Depth(Head(s))
           b == DepthOfSeq(Tail(s))
       IN IF a > b THEN a ELSE b

\* a structural copy of a node: Node.cloneNode(true) (how = "c") or the
\* re-parse of its innerHTML serialisation (how = "h"); attributes, classes
\* and inline styles are copied, the copy is a new node
CopyMark(how) == IF how = "c" THEN -1 ELSE -2
RECURSIVE Copy(_, _)
RECURSIVE CopySeq(_, _)
Copy(n, how) ==
  CASE n.t \in {"item", "furn"} -> [n EXCEPT !.tag = Append(@, how)]
    [] n.t = "cards" -> [n EXCEPT !.owner = Append(@, CopyMark(how))]
    [] n.t = "repos" -> [n EXCEPT !.holders = CopySeq(@, how)]
    [] n.t = "list"  -> [n EXCEPT !.eid = Append(@, CopyMark(how)), !.kids = CopySeq(@, how)]
CopySeq(s, how) ==
  IF s = <<>> THEN <<>> ELSE <<Copy(Head(s), how)>> \o CopySeq(Tail(s), how)

----------------------------------------------------------------------------
(* RepositoryFinder *)

\* index of '.js-repo-list' in the selectors of findRepositoryContainers; the
\* other nine selectors match an id or an attribute of the element (n.sel)
SelRepoListClass == 6
NumContainerSelectors == 10

matchesContainerSelector(n, k) ==
  IF k = SelRepoListClass THEN ClsRepoList \in n.cls ELSE n.sel = k

\* const nameElement = item.querySelector('h3 a, ..., .Link--primary'): an
\* element that one of the first six nameSelectors matches exists
hasNameElement(item) ==
  \E e \in Range(NameElements(item.id)) : e.sels \cap (1..FinderNameSelectors) # {}

\* the forEach over the itemSelectors from selector k on: the nodes the
\* selector finds, in document order, that hold a name element and are not
\* among the items yet
RECURSIVE itemsFrom(_, _, _)
itemsFrom(nodes, k, items) ==
  IF k > NumItemSelectors THEN items
  ELSE itemsFrom(nodes, k + 1,
         items \o SelectSeq(nodes, LAMBDA x : /\ k \in ItemSelectorsOf(x.id)
                                              /\ hasNameElement(x)
                                              /\ x \notin Range(items)))

\* findRepositoryItems: the nodes below the container that an itemSelector
\* matches and that hold a name element, each once, selector by selector
findRepositoryItems(n) == itemsFrom(ItemsIn(n), 1, <<>>)

\* a validation that accepts every candidate
isValidRepositoryContainerAlways(n) == TRUE

isValidRepositoryContainer(n) == Len(findRepositoryItems(n)) > 0

\* document.querySelectorAll(selector k), then the selectors after k
RECURSIVE containerCandidates(_)
containerCandidates(k) ==
  IF k > NumContainerSelectors THEN <<>>
  ELSE SelectSeq(DocLists, LAMBDA n : matchesContainerSelector(n, k))
         \o containerCandidates(k + 1)

\* the forEach over the candidates without processedContainers.add(el)
RECURSIVE collectContainersNoClaim(_, _, _)
collectContainersNoClaim(c, containers, cache) ==
  IF c = <<>> THEN [containers |-> containers, cache |-> cache]
  ELSE LET el == Head(c)
       IN IF el.eid \notin cache /\ isValidRepositoryContainer(el)
          THEN collectContainersNoClaim(Tail(c), Append(containers, el.eid), cache)
          ELSE collectContainersNoClaim(Tail(c), containers, cache)

\* the forEach over the candidates: [containers, cache] after the candidates c
RECURSIVE collectContainers(_, _, _)
collectContainers(c, containers, cache) ==
  IF c = <<>> THEN [containers |-> containers, cache |-> cache]
  ELSE LET el == Head(c)
       IN IF el.eid \notin cache /\ isValidRepositoryContainer(el)
          THEN collectContainers(Tail(c), Append(containers, el.eid), cache \cup {el.eid})
          ELSE collectContainers(Tail(c), containers, cache)

\* findRepositoryContainers, with the processedContainers it leaves
findRepositoryContainers(cache) == collectContainers(containerCandidates(1), <<>>, cache)

----------------------------------------------------------------------------
(* RepositoryProcessor *)

IsSection(n) == n.t \in {"cards", "repos"}

\* the nodes s and what is below them once the items have been appended to
\* the fragment: appendChild takes each item away from its parent
RECURSIVE Detach(_, _)
RECURSIVE DetachSeq(_, _)
Detach(n, items) ==
  CASE n.t = "list"  -> [n EXCEPT !.kids = DetachSeq(@, items)]
    [] n.t = "repos" -> [n EXCEPT !.holders = DetachSeq(@, items)]
    [] OTHER         -> n
DetachSeq(s, items) ==
  IF s = <<>> THEN <<>>
  ELSE IF Head(s) \in Range(items) THEN DetachSeq(Tail(s), items)
       ELSE <<Detach(Head(s), items)>> \o DetachSeq(Tail(s), items)

\* the guard that takes no container for processed
alreadyProcessedNever(container) == FALSE

\* if (container.dataset.gitlabProcessed === 'true') return;
alreadyProcessed(container) == container.marker

\* displayAllRepos that appends the other children before the items
displayAllReposItemsLast(container, items) ==
  IF alreadyProcessed(container) THEN container
  ELSE LET firstKids    == DetachSeq(container.kids, items)
           nonRepoItems == SelectNodes(firstKids,
                             {n \in Range(firstKids) : n \notin Range(items) /\ ~IsSection(n)})
       IN [container EXCEPT !.kids = nonRepoItems \o items]

\* displayAllRepos: the container afterwards
displayAllRepos(container, items) ==
  IF alreadyProcessed(container) THEN container
  ELSE LET firstKids    == DetachSeq(container.kids, items)
           nonRepoItems == SelectNodes(firstKids,
                             {n \in Range(firstKids) : n \notin Range(items) /\ ~IsSection(n)})
       IN [container EXCEPT !.kids = items \o nonRepoItems]

\* GroupCard.create for each entry of the Map
RECURSIVE groupCards(_)
groupCards(groups) ==
  IF groups = <<>> THEN <<>>
  ELSE <<[gid |-> Head(groups).name, count |-> Len(Head(groups).items), active |-> FALSE]>>
         \o groupCards(Tail(groups))

\* createGroupCardsSection that appends the 'all' card after the group cards
createGroupCardsSectionAllLast(groups, container) ==
  [t     |-> "cards",
   owner |-> container.eid,
   cards |-> groupCards(groups)
               \o <<[gid |-> ALL, count |-> Len(flat(groups)), active |-> FALSE]>>]

\* createGroupCardsSection: the 'all' card, then one card per group
createGroupCardsSection(groups, container) ==
  [t     |-> "cards",
   owner |-> container.eid,
   cards |-> <<[gid |-> ALL, count |-> Len(flat(groups)), active |-> FALSE]>>
               \o groupCards(groups)]

\* document.createElement(container.tagName) with the container's className
\* and 'gitlab-repo-container', hidden, holding kids
newHolder(container, k, gid, kids) ==
  [t       |-> "list",
   eid     |-> Append(container.eid, k),
   sel     |-> 0,
   cls     |-> container.cls \cup {ClsHolder},
   marker  |-> FALSE,
   gid     |-> gid,
   display |-> "none",
   kids    |-> kids]

\* createRepoContainers whose 'all' holder appends the items themselves: the
\* group holders then take them away again
createRepoContainersNoClone(groups, container) ==
  [t       |-> "repos",
   holders |-> <<newHolder(container, 0, ALL, <<>>)>>
                 \o [k \in 1..Len(groups) |->
                       newHolder(container, k, groups[k].name, groups[k].items)]]

\* createRepoContainers: the 'all' holder with a clone of every item, then one
\* holder per group with the group's items
createRepoContainers(groups, container) ==
  [t       |-> "repos",
   holders |-> <<newHolder(container, 0, ALL, CopySeq(flat(groups), "c"))>>
                 \o [k \in 1..Len(groups) |->
                       newHolder(container, k, groups[k].name, groups[k].items)]]

\* autoShowFirstGroup: the group the timer will select
firstGroupOf(cg) ==
  LET keys == extractGroups(<<>>, cg)
  IN IF keys # <<>> THEN keys[1].name ELSE ALL

\* the try block of createGroupCards when nothing throws
reorganize(container, groups) ==
  LET cleared == [container EXCEPT !.kids = <<>>, !.cls = @ \cup {ClsGrouped}]
  IN [cleared EXCEPT !.kids = <<createGroupCardsSection(groups, cleared),
                                createRepoContainers(groups, cleared)>>]

\* the catch block of createGroupCards: innerHTML and className are assigned
\* from the saved strings, then displayAllRepos
rollback(container, items) ==
  LET restored == [container EXCEPT !.kids = CopySeq(container.kids, "h")]
  IN displayAllRepos(restored, items)

\* createGroupCards without the return for groups.size <= 1
createGroupCardsAlways(container, items, cg, fault) ==
  LET groups == extractGroups(items, cg)
  IN IF fault = "none"
     THEN [el |-> reorganize(container, groups), how |-> "reorganize"]
     ELSE [el |-> rollback(container, items), how |-> "rollback"]

\* createGroupCards: [el |-> the container afterwards, how |-> what was done];
\* fault is where the try block throws ("none" if it does not)
createGroupCards(container, items, cg, fault) ==
  LET groups == extractGroups(items, cg)
  IN IF Len(groups) <= 1
     THEN [el |-> displayAllRepos(container, items), how |-> "displayAll"]
     ELSE IF fault = "none"
          THEN [el |-> reorganize(container, groups), how |-> "reorganize"]
          ELSE [el |-> rollback(container, items), how |-> "rollback"]

----------------------------------------------------------------------------
(* GroupDisplayManager *)

IsHolder(n) == n.t = "list" /\ ClsHolder \in n.cls

\* hideAllRepoContainers: every .gitlab-repo-container below n is hidden
RECURSIVE hideAllRepoContainers(_)
hideAllRepoContainers(n) ==
  CASE n.t = "list"  ->
         [n EXCEPT !.display = IF ClsHolder \in n.cls THEN "none" ELSE @,
                   !.kids = [k \in 1..Len(n.kids) |-> hideAllRepoContainers(n.kids[k])]]
    [] n.t = "repos" ->
         [n EXCEPT !.holders = [k \in 1..Len(n.holders) |-> hideAllRepoContainers(n.holders[k])]]
    [] OTHER -> n

\* the holders below the repos section that carry data-group-id = groupId, in
\* document order
holdersOf(reposSection, groupId) ==
  SelectSeq(Lists(reposSection), LAMBDA h : IsHolder(h) /\ h.gid = groupId)

\* showSelectedContainer that falls back to the first holder of the section
showSelectedContainerOrFirst(reposSection, groupId) ==
  LET found == holdersOf(reposSection, groupId)
      all   == SelectSeq(Lists(reposSection), LAMBDA h : IsHolder(h))
  IN IF found # <<>>
     THEN ReplaceEl(reposSection, found[1].eid, [found[1] EXCEPT !.display = "block"])
     ELSE IF all # <<>>
          THEN ReplaceEl(reposSection, all[1].eid, [all[1] EXCEPT !.display = "block"])
          ELSE reposSection

\* showSelectedContainer: the first such holder gets display 'block'
showSelectedContainer(reposSection, groupId) ==
  LET found == holdersOf(reposSection, groupId)
  IN IF found # <<>>
     THEN ReplaceEl(reposSection, found[1].eid, [found[1] EXCEPT !.display = "block"])
     ELSE reposSection

\* the cards sections below n with every card inactive, except card k of the
\* section owned by owner (k = 0: none)
RECURSIVE setActiveCard(_, _, _)
setActiveCard(n, owner, k) ==
  CASE n.t = "cards" ->
         [n EXCEPT !.cards = [j \in 1..Len(n.cards) |->
                                [n.cards[j] EXCEPT !.active = (n.owner = owner /\ j = k)]]]
    [] n.t = "list"  ->
         [n EXCEPT !.kids = [j \in 1..Len(n.kids) |-> setActiveCard(n.kids[j], owner, k)]]
    [] n.t = "repos" ->
         [n EXCEPT !.holders = [j \in 1..Len(n.holders) |-> setActiveCard(n.holders[j], owner, k)]]
    [] OTHER -> n

HasCard(section, groupId) == \E j \in 1..Len(section.cards) : section.cards[j].gid = groupId

\* updateActiveCard: every .gitlab-group-card of the container loses 'active',
\* then the first card with data-group-id = groupId gets it
updateActiveCard(container, groupId) ==
  LET sections == SelectSeq(CardsIn(container), LAMBDA c : HasCard(c, groupId))
  IN IF sections # <<>>
     THEN LET sec == sections[1]
              k   == CHOOSE j \in 1..Len(sec.cards) :
                       /\ sec.cards[j].gid = groupId
                       /\ \A i \in 1..(j - 1) : sec.cards[i].gid # groupId
          IN setActiveCard(container, sec.owner, k)
     ELSE setActiveCard(container, <<>>, 0)

\* position among the children of the container of its first
\* .gitlab-repos-section (container.querySelector), or 0
reposIndex(container) ==
  IF \E k \in 1..Len(container.kids) : container.kids[k].t = "repos"
  THEN CHOOSE k \in 1..Len(container.kids) :
         /\ container.kids[k].t = "repos"
         /\ \A j \in 1..(k - 1) : container.kids[j].t # "repos"
  ELSE 0

\* showGroupRepos: the container afterwards
showGroupRepos(groupId, container) ==
  LET r == reposIndex(container)
  IN IF r = 0 THEN container
     ELSE LET hidden == hideAllRepoContainers(container.kids[r])
              shown  == showSelectedContainer(hidden, groupId)
          IN updateActiveCard([container EXCEPT !.kids[r] = shown], groupId)

----------------------------------------------------------------------------
(* StorageManager.                                                         *)
(* A setting value is written as its JSON text.  A text is <<"json", v>>   *)
(* (what JSON.stringify(v) returns and JSON.parse reads back as v),        *)
(* <<"corrupt">> (a string JSON.parse throws on), <<>> (the empty string)  *)
(* or NullText (getItem / getCookie return null).                          *)
(***************************************************************************)

\* the values of the settings: groupingEnabled, customGroups
SettingValues == {"true", "false", "[]", "[a]", "[a;b]"}

NoRow    == "none"
NullText == <<"null">>
Corrupt  == <<"corrupt">>

stringify(v) == <<"json", v>>

SettingTexts == {stringify(v) : v \in SettingValues} \cup {Corrupt, <<>>, NullText}

\* if (localValue), if (cookieValue): null and '' are falsy
truthy(text) == text # NullText /\ text # <<>>

\* JSON.parse: the value, or an exception
parse(text) ==
  IF Len(text) = 2 /\ text[1] = "json"
  THEN [out |-> "return", value |-> text[2]]
  ELSE [out |-> "throw", value |-> NoRow]

\* setCookie writes name=value;expires=...: what getCookie reads back ends at
\* the first semicolon of the value
cookieText(text) == IF text = stringify("[a;b]") THEN Corrupt ELSE text

\* the layers: db is "none" (this.db is null), "ok" or "fails" (its
\* operations reject), row is the value of the settings table for the key;
\* ls and ck are "ok" or "throws" (access raises), lsText and ckText are
\* what getItem and getCookie return for the key
Storages ==
  [db : {"none", "ok", "fails"}, row : SettingValues \cup {NoRow},
   ls : {"ok", "throws"}, lsText : SettingTexts,
   ck : {"ok", "throws"}, ckText : SettingTexts]

NoStorage == [db |-> "none", row |-> NoRow, ls |-> "ok", lsText |-> NullText,
              ck |-> "ok", ckText |-> NullText]

\* the try block of loadSetting: what it returns, or that it throws
loadSettingTry(st, defaultValue) ==
  IF st.db = "fails" THEN [out |-> "throw", value |-> NoRow]
  ELSE IF st.db = "ok" /\ st.row # NoRow THEN [out |-> "return", value |-> st.row]
  ELSE IF st.ls = "throws" THEN [out |-> "throw", value |-> NoRow]
  ELSE IF truthy(st.lsText) THEN parse(st.lsText)
  ELSE IF st.ck = "throws" THEN [out |-> "throw", value |-> NoRow]
  ELSE IF truthy(st.ckText) THEN parse(st.ckText)
  ELSE [out |-> "return", value |-> defaultValue]

\* loadSetting without its catch block
loadSettingNoCatch(st, defaultValue) ==
  LET r == loadSettingTry(st, defaultValue)
  IN IF r.out = "throw" THEN [threw |-> TRUE, value |-> NoRow]
     ELSE [threw |-> FALSE, value |-> r.value]

\* loadSetting: the catch block returns the default
loadSetting(st, defaultValue) ==
  LET r == loadSettingTry(st, defaultValue)
  IN IF r.out = "throw" THEN [threw |-> FALSE, value |-> defaultValue]
     ELSE [threw |-> FALSE, value |-> r.value]

\* localStorage.setItem, then setCookie: the layers afterwards, or that the
\* first of them that raises has thrown
writeLocalAndCookie(st, value) ==
  IF st.ls = "throws" THEN [out |-> "throw", st |-> st]
  ELSE LET a == [st EXCEPT !.lsText = stringify(value)]
       IN IF st.ck = "throws" THEN [out |-> "throw", st |-> a]
          ELSE [out |-> "return", st |-> [a EXCEPT !.ckText = cookieText(stringify(value))]]

\* saveSettingFallback: its own try and catch
saveSettingFallback(st, value) ==
  [threw |-> FALSE, st |-> writeLocalAndCookie(st, value).st]

\* saveSetting: the row of the table is replaced, then localStorage and the
\* cookie are written; the catch block calls saveSettingFallback
saveSetting(st, value) ==
  IF st.db = "fails" THEN saveSettingFallback(st, value)
  ELSE LET a == IF st.db = "ok" THEN [st EXCEPT !.row = value] ELSE st
           w == writeLocalAndCookie(a, value)
       IN IF w.out = "throw" THEN saveSettingFallback(w.st, value)
          ELSE [threw |-> FALSE, st |-> w.st]

----------------------------------------------------------------------------
(* The foreign page *)

MaxNav   == 1    \* location changes of the foreign page
MaxDepth == 3    \* nesting of list elements up to which passes are started
MaxBurst == 2    \* relevant mutation batches counted in one burst
MaxLen   == 3    \* items handed to extractGroups under SpecGroups
MaxSaves == 2    \* saveCustomGroups calls in flight

Container(eid, sel, cls, kids) ==
  [t |-> "list", eid |-> eid, sel |-> sel, cls |-> cls, marker |-> FALSE,
   gid |-> NoGid, display |-> "", kids |-> kids]

PageKinds == {"id", "class", "two"}

\* the pages the navigation specification starts from and moves between: their
\* lists are found by id
NavKinds == {"id"}

\* the repository lists of a page: one found by '#user-repositories-list', one
\* found by '.js-repo-list', two lists of which the second yields one group,
\* a pair of lists that yield two groups each, two lists that hold no item
\* yet, or one such list
PageDoc(kind, gen) ==
  LET kidsA == <<Item(1), Item(2), Furn(1), Item(3)>>
      kidsB == <<Item(4), Item(6)>>
      kidsC == <<Item(5), Furn(2), Item(6)>>
  IN CASE kind = "id"    -> <<Container(<<1, gen>>, 1, {}, kidsA)>>
       [] kind = "class" -> <<Container(<<1, gen>>, 0, {ClsRepoList}, kidsA)>>
       [] kind = "two"   -> <<Container(<<1, gen>>, 1, {}, kidsA),
                              Container(<<2, gen>>, 7, {}, kidsB)>>
       [] kind = "pair"  -> <<Container(<<1, gen>>, 1, {}, kidsA),
                              Container(<<2, gen>>, 7, {}, kidsC)>>
       [] kind = "empty" -> <<Container(<<1, gen>>, 1, {}, <<Furn(1)>>),
                              Container(<<2, gen>>, 7, {}, <<>>)>>
       [] kind = "bare"  -> <<Container(<<1, gen>>, 1, {}, <<Furn(1)>>)>>

\* PageDetector.isRepositoryPage is true when one of its four list selectors
\* matches (selectors 1, 2, 3 and 9 of the finder); otherwise the path decides
ForcesRepoPage(d) == \E k \in 1..Len(d) : d[k].sel \in {1, 2, 3, 9}

CustomPool == {<<"A", "B">>, <<"x">>}

\* the custom groups the GroupManager classifies with: the orchestrator's Set
\* itself until updateCustomGroups replaces it by a copy
GmSet == IF gmCustomGroups.shared THEN customGroups ELSE gmCustomGroups.set

NoPass == [running |-> FALSE, todo |-> <<>>, cause |-> "none", quiet |-> FALSE,
           before |-> <<>>, done |-> <<>>, found |-> <<>>, threw |-> <<>>,
           mutated |-> FALSE]

Debounce == {t \in timers : t.kind = "debounce"}
Saves    == {t \in timers : t.kind = "saved"}

\* a timer handle that no pending timer has and that debounceTimer does not hold
FreshTimer ==
  CHOOSE n \in 1..(Cardinality(timers) + 2) :
    /\ n # debounceTimer
    /\ \A t \in timers : t.id # n
    /\ \A m \in 1..(n - 1) : m = debounceTimer \/ \E t \in timers : t.id = m

Timer(kind, el, gid) == [id |-> FreshTimer, kind |-> kind, el |-> el, gid |-> gid]

\* state after init(): settings loaded, collaborators built, navigation
\* listener installed, the immediate run and the delayed run scheduled
InitCommon ==
  /\ processedContainers = {}
  /\ existingControls = FALSE
  /\ isProcessing = FALSE
  /\ pass = NoPass
  /\ activePasses = 0
  /\ gmCustomGroups = [shared |-> TRUE, set |-> <<>>]
  /\ observer = FALSE
  /\ debounceTimer = 0
  /\ location = 0
  /\ currentUrl = 0
  /\ navObserver = TRUE
  /\ currentActiveGroup = NoGid
  /\ quiet = FALSE
  /\ burst = 0
  /\ last = [op |-> "init"]
  /\ gGroups = <<>>
  /\ gName = <<>>
  /\ storage = NoStorage

Init ==
  /\ InitCommon
  /\ \E kind \in PageKinds : doc = PageDoc(kind, 0)
  /\ repoPage \in {b \in BOOLEAN : ForcesRepoPage(doc) => b}
  /\ groupingEnabled \in BOOLEAN
  /\ customGroups = <<>>
  /\ timers = {[id |-> 1, kind |-> "run", el |-> <<>>, gid |-> NoGid],
               [id |-> 2, kind |-> "run", el |-> <<>>, gid |-> NoGid]}
  /\ gItems = <<>>

\* state after init() on a page whose lists are found by id
InitNav ==
  /\ Init
  /\ \E kind \in NavKinds : doc = PageDoc(kind, 0)

Idle == ~pass.running

CanPass == DepthOfSeq(doc) < MaxDepth

----------------------------------------------------------------------------
(* GitHubGitLabTheme.processRepositories *)

\* the guard that never finds a pass running
processingGuardOff == FALSE

\* if (this.isProcessing) return;
processingGuard == isProcessing

\* the call of processRepositories up to and including discovery; cache is
\* processedContainers at the call, records tells whether the caller has
\* added a node below an observed element before the call
processRepositories(cause, cache, records) ==
  IF processingGuard
  THEN /\ processedContainers' = cache
       /\ UNCHANGED passVars
       /\ last' = [op |-> "callIgnored", cause |-> cause]
  ELSE LET f == findRepositoryContainers(cache)
       IN /\ isProcessing' = TRUE
          /\ activePasses' = activePasses + 1
          /\ pass' = [running |-> TRUE, todo |-> f.containers, cause |-> cause,
                      quiet |-> quiet /\ cause \in {"init", "debounce"},
                      before |-> doc, done |-> <<>>, found |-> f.containers,
                      threw |-> <<>>, mutated |-> records]
          /\ processedContainers' = f.cache
          /\ last' = [op |-> "pass", cause |-> cause, found |-> f.containers,
                      burst |-> burst]

Faults == {"none", "strip", "holders"}

\* the body of containers.forEach for the next container of the pass
PassContainer ==
  /\ pass.running /\ pass.todo # <<>>
  /\ LET eid == Head(pass.todo)
         act == InDoc(eid) /\ Len(findRepositoryItems(El(eid))) > 0 /\ ~El(eid).marker
     IN /\ pass' = [pass EXCEPT !.todo = Tail(@),
                                !.done = IF act THEN Append(@, eid) ELSE @,
                                !.mutated = @ \/ (act /\ observer)]
        /\ IF InDoc(eid) /\ Len(findRepositoryItems(El(eid))) > 0 /\ ~El(eid).marker
           THEN \E fault \in Faults :
                  LET container == El(eid)
                      items     == findRepositoryItems(container)
                      r == IF groupingEnabled
                           THEN createGroupCards(container, items, GmSet, fault)
                           ELSE [el |-> displayAllRepos(container, items), how |-> "displayAll"]
                  IN /\ doc' = ReplaceInSeq(doc, eid, [r.el EXCEPT !.marker = TRUE])
                     /\ timers' = IF r.how = "reorganize"
                                  THEN timers \cup {Timer("autoShow", eid, firstGroupOf(GmSet))}
                                  ELSE timers
                     /\ last' = [op |-> r.how, el |-> eid, before |-> container,
                                 items |-> items]
           ELSE /\ last' = [op |-> "skip", el |-> eid]
                /\ UNCHANGED <<doc, timers>>
  /\ UNCHANGED <<existingControls, processedContainers, isProcessing, activePasses, setVars, observer,
                 debounceTimer, navVars, currentActiveGroup, quiet, burst, pureVars>>

\* where an exception can leave the callback of containers.forEach:
\* extractGroups (before the try of createGroupCards), displayAllRepos called
\* for a container that is not grouped, displayAllRepos called by the catch
\* block of createGroupCards
Throws == {"classify", "display", "rollback"}

\* the body of containers.forEach throws for the next container of the pass:
\* the catch of processRepositories ends the forEach, the container is not
\* marked and the containers after it are not visited
PassThrow ==
  /\ pass.running /\ pass.todo # <<>>
  /\ LET eid == Head(pass.todo)
     IN /\ InDoc(eid) /\ Len(findRepositoryItems(El(eid))) > 0 /\ ~El(eid).marker
        /\ \E where \in Throws :
             LET container == El(eid)
                 groups    == extractGroups(findRepositoryItems(container), GmSet)
             IN /\ where = "classify" => groupingEnabled
                /\ where = "display"  => ~groupingEnabled \/ Len(groups) <= 1
                /\ where = "rollback" => groupingEnabled /\ Len(groups) > 1
                /\ doc' = IF where = "rollback"
                          THEN ReplaceInSeq(doc, eid,
                                 [container EXCEPT !.kids = CopySeq(container.kids, "h")])
                          ELSE doc
                /\ last' = [op |-> "threw", el |-> eid, where |-> where]
        /\ pass' = [pass EXCEPT !.todo = <<>>, !.threw = eid,
                                !.mutated = @ \/ (observer /\ last'.where = "rollback")]
  /\ UNCHANGED <<existingControls, processedContainers, isProcessing, activePasses, setVars, watchVars,
                 navVars, currentActiveGroup, quiet, pureVars>>

\* catch (e) { console.error(...) }: whether the exception of the container
\* threw leaves processRepositories
rethrown(threw) == FALSE

\* a flag that is cleared at the end of the try block only
flagAfterTryOnly(threw) == threw # <<>>

\* finally { this.isProcessing = false; }, whether or not a container threw
flagAfterFinally(threw) == FALSE

\* the catch and the finally block, and the return
PassEnd ==
  /\ pass.running /\ pass.todo = <<>>
  /\ isProcessing' = flagAfterFinally(pass.threw)
  /\ activePasses' = activePasses - 1
  /\ pass' = NoPass
  /\ quiet' = TRUE
  /\ last' = [op |-> "passEnd", cause |-> pass.cause, quiet |-> pass.quiet,
              before |-> pass.before, done |-> pass.done, found |-> pass.found,
              threw |-> pass.threw, escaped |-> rethrown(pass.threw),
              mutated |-> pass.mutated]
  /\ UNCHANGED <<existingControls, domVars, setVars, watchVars, navVars, currentActiveGroup, pureVars>>

\* a call of processRepositories that arrives while a pass is running
ReentrantCall ==
  /\ pass.running
  /\ processRepositories("reentrant", processedContainers, FALSE)
  /\ UNCHANGED <<existingControls, doc, setVars, watchVars, navVars, currentActiveGroup, quiet, pureVars>>

----------------------------------------------------------------------------
(* GitHubGitLabTheme: run, the mutation observer, the handlers *)

\* the selectors of repoSections in addGroupControls that are selectors of
\* the finder too: its selectors 1, 2, 3 and 9
ControlSections == {1, 2, 3, 9}

\* addGroupControls inserts the controls before a list: no element
\* .gitlab-group-controls exists and a selector of repoSections finds a list
addGroupControls ==
  /\ ~existingControls
  /\ \E k \in 1..Len(DocLists) : DocLists[k].sel \in ControlSections

\* run(): page check, setupMutationObserver, addGroupControls,
\* processRepositories
run(cause, cache) ==
  IF ~repoPage
  THEN /\ processedContainers' = cache
       /\ last' = [op |-> "runSkipped", cause |-> cause]
       /\ UNCHANGED <<passVars, observer, existingControls>>
  ELSE /\ observer' = TRUE
       /\ existingControls' = (existingControls \/ addGroupControls)
       /\ processRepositories(cause, cache, addGroupControls)

\* the immediate run of init() and its setTimeout(() => this.run(), 1000)
RunTimer ==
  /\ Idle /\ CanPass
  /\ \E t \in timers :
       /\ t.kind = "run"
       /\ timers' = timers \ {t}
  /\ run("init", processedContainers)
  /\ UNCHANGED <<doc, setVars, debounceTimer, burst, navVars, currentActiveGroup,
                 quiet, pureVars>>

\* if (this.isProcessing) return;  in the MutationObserver callback
observerGuard == isProcessing

\* the callback that arms a new timer without clearing the pending one
armDebounceNoClear ==
  /\ timers' = timers \cup {Timer("debounce", <<>>, NoGid)}
  /\ debounceTimer' = FreshTimer

\* if (this.debounceTimer) clearTimeout(this.debounceTimer);
\* this.debounceTimer = setTimeout(..., 300)
armDebounce ==
  /\ timers' = {t \in timers : t.id # debounceTimer} \cup {Timer("debounce", <<>>, NoGid)}
  /\ debounceTimer' = FreshTimer

\* the MutationObserver callback of setupMutationObserver for a batch of
\* records that holds a childList record with added nodes ("added") or holds
\* none ("removed"); the batch may arrive at any time, also during a pass
ObserverCallback ==
  /\ observer
  /\ \E batch \in {"added", "removed"} :
       IF observerGuard
       THEN /\ last' = [op |-> "observerIgnored", batch |-> batch]
            /\ UNCHANGED <<debounceTimer, timers, burst>>
       ELSE IF batch = "added"
            THEN /\ burst < MaxBurst
                 /\ armDebounce
                 /\ burst' = burst + 1
                 /\ last' = [op |-> "observer", batch |-> batch]
            ELSE /\ last' = [op |-> "observer", batch |-> batch]
                 /\ UNCHANGED <<debounceTimer, timers, burst>>
  /\ UNCHANGED <<existingControls, domVars, passVars, setVars, observer, navVars, currentActiveGroup,
                 quiet, pureVars>>

MaxRecords == 2    \* mutation records in one batch handed to the callback

\* the records the observer delivers (it observes childList and subtree):
\* nodes added, nodes removed, or both
MutationRecords ==
  {[type |-> "childList", addedNodes |-> 1, removedNodes |-> 0],
   [type |-> "childList", addedNodes |-> 0, removedNodes |-> 1],
   [type |-> "childList", addedNodes |-> 2, removedNodes |-> 1]}

MutationBatches == UNION {[1..n -> MutationRecords] : n \in 1..MaxRecords}

\* the loop that takes every record for relevant
shouldProcessAny(mutations) ==
  \E k \in 1..Len(mutations) : mutations[k].type = "childList"

\* the loop over the records: a childList record with an added node
shouldProcess(mutations) ==
  \E k \in 1..Len(mutations) :
    mutations[k].type = "childList" /\ mutations[k].addedNodes > 0

\* the MutationObserver callback of setupMutationObserver for a batch of
\* records; the batch may arrive at any time, also during a pass
ObserverBatch ==
  /\ observer
  /\ \E mutations \in MutationBatches :
       IF observerGuard
       THEN /\ last' = [op |-> "batchIgnored", mutations |-> mutations]
            /\ UNCHANGED <<debounceTimer, timers, burst>>
       ELSE IF shouldProcess(mutations)
            THEN /\ burst < MaxBurst
                 /\ armDebounce
                 /\ burst' = burst + 1
                 /\ last' = [op |-> "batch", mutations |-> mutations]
            ELSE /\ last' = [op |-> "batch", mutations |-> mutations]
                 /\ UNCHANGED <<debounceTimer, timers, burst>>
  /\ UNCHANGED <<existingControls, domVars, passVars, setVars, observer, navVars, currentActiveGroup,
                 quiet, pureVars>>

\* the debounced callback: if (PageDetector.isRepositoryPage()) {
\* addGroupControls(); processRepositories(); }
DebounceFire ==
  /\ Idle /\ CanPass
  /\ \E t \in timers :
       /\ t.kind = "debounce"
       /\ timers' = timers \ {t}
       /\ IF repoPage
          THEN /\ existingControls' = (existingControls \/ addGroupControls)
               /\ processRepositories("debounce", processedContainers,
                                      observer /\ addGroupControls)
               /\ burst' = 0
          ELSE /\ last' = [op |-> "debounceSkipped"]
               /\ burst' = 0
               /\ UNCHANGED <<processedContainers, passVars, existingControls>>
  /\ UNCHANGED <<doc, setVars, observer, debounceTimer, navVars, currentActiveGroup,
                 quiet, pureVars>>

\* a callback that takes every mutation for a location change
urlDiffersAlways == TRUE

\* if (window.location.href !== this.currentUrl)
urlDiffers == location # currentUrl

\* the MutationObserver callback of NavigationManager.setupNavigationListener,
\* called for any mutation below document.body
NavObserverCallback ==
  /\ Idle
  /\ navObserver
  /\ IF urlDiffers
     THEN /\ currentUrl' = location
          /\ timers' = timers \cup {Timer("nav", <<>>, NoGid)}
          /\ last' = [op |-> "urlChanged", from |-> currentUrl]
     ELSE /\ last' = [op |-> "urlSame"]
          /\ UNCHANGED <<currentUrl, timers>>
  /\ UNCHANGED <<existingControls, domVars, passVars, setVars, observer, debounceTimer,
                 burst, location, repoPage, navObserver, currentActiveGroup, quiet,
                 pureVars>>

\* RepositoryFinder.clearProcessedCache
clearProcessedCache == {}

\* handleNavigationChange, 500 ms after the location change was seen
NavTimerFire ==
  /\ Idle /\ CanPass
  /\ \E t \in timers :
       /\ t.kind = "nav"
       /\ timers' = timers \ {t}
  /\ run("navigation", clearProcessedCache)
  /\ UNCHANGED <<doc, setVars, debounceTimer, burst, navVars, currentActiveGroup,
                 quiet, pureVars>>

\* handleToggleGrouping, called by the toggle button of the group controls
ToggleGrouping ==
  /\ Idle /\ CanPass
  /\ observer
  /\ groupingEnabled' = ~groupingEnabled
  /\ processRepositories("toggle", clearProcessedCache, FALSE)
  /\ quiet' = FALSE
  /\ UNCHANGED <<existingControls, doc, customGroups, gmCustomGroups, watchVars, navVars,
                 currentActiveGroup, pureVars>>

\* handleAddGroup up to its await: the modal passes a trimmed, non-empty name
\* that is not in the Set
AddGroup ==
  /\ Idle
  /\ observer
  /\ Cardinality(Saves) < MaxSaves
  /\ \E name \in CustomPool :
       /\ name \notin Range(customGroups)
       /\ customGroups' = Append(customGroups, name)
       /\ last' = [op |-> "addGroup", name |-> name]
  /\ timers' = timers \cup {Timer("saved", <<>>, NoGid)}
  /\ quiet' = FALSE
  /\ UNCHANGED <<existingControls, domVars, passVars, groupingEnabled, gmCustomGroups, observer,
                 debounceTimer, burst, navVars, currentActiveGroup, pureVars>>

\* handleRemoveGroup up to its await
RemoveGroup ==
  /\ Idle
  /\ observer
  /\ Cardinality(Saves) < MaxSaves
  /\ \E k \in 1..Len(customGroups) :
       /\ customGroups' = SelectNodes(customGroups, Range(customGroups) \ {customGroups[k]})
       /\ last' = [op |-> "removeGroup", name |-> customGroups[k]]
  /\ timers' = timers \cup {Timer("saved", <<>>, NoGid)}
  /\ quiet' = FALSE
  /\ UNCHANGED <<existingControls, domVars, passVars, groupingEnabled, gmCustomGroups, observer,
                 debounceTimer, burst, navVars, currentActiveGroup, pureVars>>

\* an update that adds the new names and keeps the names it has
updateCustomGroupsMerged(newGroups) ==
  [shared |-> FALSE,
   set |-> GmSet \o SelectNodes(newGroups, Range(newGroups) \ Range(GmSet))]

\* GroupManager.updateCustomGroups: this.customGroups = new Set(newGroups)
updateCustomGroups(newGroups) == [shared |-> FALSE, set |-> newGroups]

\* handleAddGroup / handleRemoveGroup after saveCustomGroups has settled:
\* updateCustomGroups, clearProcessedCache, processRepositories
GroupsSaved ==
  /\ Idle /\ CanPass
  /\ \E t \in timers :
       /\ t.kind = "saved"
       /\ timers' = timers \ {t}
  /\ gmCustomGroups' = updateCustomGroups(customGroups)
  /\ processRepositories("groups", clearProcessedCache, FALSE)
  /\ UNCHANGED <<existingControls, doc, groupingEnabled, customGroups, observer, debounceTimer, burst,
                 navVars, currentActiveGroup, quiet, pureVars>>

\* the values the user leaves in the input #new-group-name
ModalInputs == {<<>>, <<" ">>, <<" ", "x">>, <<"x", " ">>, <<"x">>, <<"A", "B">>}

\* Set.prototype.add on the insertion-ordered Set
SetAdd(set, value) == IF value \in Range(set) THEN set ELSE Append(set, value)

\* a modal that hands every name to the add handler
canAddAny(groupName) == TRUE

\* if (groupName && !this.customGroups.has(groupName)), the modal's Set being
\* the orchestrator's Set object
canAdd(groupName) == groupName # <<>> /\ groupName \notin Range(customGroups)

\* GroupManagerModal.handleAddGroup, called by the add button and by Enter,
\* and GitHubGitLabTheme.handleAddGroup up to its await
ModalAddGroup ==
  /\ Idle
  /\ observer
  /\ Cardinality(Saves) < MaxSaves
  /\ \E value \in ModalInputs :
       LET groupName == trim(value)
       IN IF canAdd(groupName)
          THEN /\ customGroups' = SetAdd(customGroups, groupName)
               /\ timers' = timers \cup {Timer("saved", <<>>, NoGid)}
               /\ last' = [op |-> "addGroup", name |-> groupName, value |-> value]
               /\ quiet' = FALSE
          ELSE /\ last' = [op |-> "addIgnored", value |-> value]
               /\ UNCHANGED <<customGroups, timers, quiet>>
  /\ UNCHANGED <<existingControls, domVars, passVars, groupingEnabled, gmCustomGroups, observer,
                 debounceTimer, burst, navVars, currentActiveGroup, pureVars>>

----------------------------------------------------------------------------
(* Selection *)

\* the list elements that enclose the element eid, itself included, are shown
Shown(eid) ==
  \A n \in 2..Len(eid) :
    LET p == SubSeq(eid, 1, n) IN InDoc(p) => El(p).display # "none"

\* card.closest('.gitlab-grouped-repositories') for a card of the cards
\* section owned by the list element owner
closestGrouped(owner) ==
  LET up == {n \in 2..Len(owner) :
               InDoc(SubSeq(owner, 1, n)) /\ ClsGrouped \in El(SubSeq(owner, 1, n)).cls}
  IN SubSeq(owner, 1, CHOOSE n \in up : \A m \in up : m <= n)

\* GitHubGitLabTheme.showGroupRepos(groupId, card), the click handler of a
\* card, for a card of the section owned by owner: the document afterwards
clickCard(groupId, owner) ==
  LET c == closestGrouped(owner)
  IN ReplaceInSeq(doc, c, showGroupRepos(groupId, El(c)))

HasCardsSection(n) == \E k \in 1..Len(n.kids) : n.kids[k].t = "cards"

\* the user clicks a card that is on screen
UserSelect ==
  /\ Idle
  /\ \E k \in 1..Len(DocLists) :
       LET el == DocLists[k]
       IN /\ HasCardsSection(el)
          /\ Shown(el.eid)
          /\ \E sec \in Range(SelectSeq(el.kids, LAMBDA n : n.t = "cards")) :
               \E j \in 1..Len(sec.cards) :
                 /\ doc' = clickCard(sec.cards[j].gid, sec.owner)
                 /\ currentActiveGroup' = sec.cards[j].gid
                 /\ last' = [op |-> "select", el |-> closestGrouped(sec.owner),
                             gid |-> sec.cards[j].gid, user |-> TRUE]
  /\ quiet' = FALSE
  /\ UNCHANGED <<existingControls, processedContainers, passVars, setVars, watchVars, navVars, pureVars>>

\* the timer of autoShowFirstGroup: the first card of the container with the
\* chosen identifier is clicked
AutoShowFire ==
  /\ Idle
  /\ \E t \in timers :
       /\ t.kind = "autoShow"
       /\ timers' = timers \ {t}
       /\ IF InDoc(t.el)
          THEN LET secs == SelectSeq(CardsIn(El(t.el)), LAMBDA c : HasCard(c, t.gid))
               IN IF secs # <<>>
                  THEN /\ doc' = clickCard(t.gid, secs[1].owner)
                       /\ currentActiveGroup' = t.gid
                       /\ last' = [op |-> "select", el |-> closestGrouped(secs[1].owner),
                                   gid |-> t.gid, user |-> FALSE]
                  ELSE /\ last' = [op |-> "autoShowMissed", el |-> t.el]
                       /\ UNCHANGED <<doc, currentActiveGroup>>
          ELSE /\ currentActiveGroup' = t.gid
               /\ last' = [op |-> "autoShowDetached", el |-> t.el]
               /\ UNCHANGED doc
  /\ UNCHANGED <<existingControls, processedContainers, passVars, setVars, observer, debounceTimer, burst,
                 navVars, quiet, pureVars>>

----------------------------------------------------------------------------
(* The foreign page navigates without reloading: the location changes and the
   page keeps its lists, replaces them by new elements, or drops them; the
   controls, inserted before a list, stay or go with the lists *)

Navigate ==
  /\ Idle
  /\ location < MaxNav
  /\ location' = location + 1
  /\ doc' \in {doc, <<>>} \cup {PageDoc(kind, location + 1) : kind \in NavKinds}
  /\ existingControls' = (existingControls /\ doc' = doc)
  /\ repoPage' \in {b \in BOOLEAN : ForcesRepoPage(doc') => b}
  /\ quiet' = FALSE
  /\ last' = [op |-> "navigate", kept |-> doc' = doc]
  /\ UNCHANGED <<processedContainers, passVars, setVars, watchVars, currentUrl,
                 navObserver, currentActiveGroup, pureVars>>

\* GitHubGitLabTheme.destroy: the mutation observer is disconnected, then
\* NavigationManager.destroy disconnects and drops the navigation observer;
\* no timer is cleared
Destroy ==
  /\ Idle
  /\ navObserver
  /\ observer' = FALSE
  /\ navObserver' = FALSE
  /\ last' = [op |-> "destroy"]
  /\ UNCHANGED <<existingControls, domVars, passVars, setVars, debounceTimer, timers, burst, location,
                 repoPage, currentUrl, currentActiveGroup, quiet, pureVars>>

\* the pipeline: runs, the observer and its debounce timer, passes, selection
Next ==
  \/ RunTimer
  \/ ObserverCallback
  \/ DebounceFire
  \/ UserSelect
  \/ AutoShowFire
  \/ PassContainer
  \/ PassEnd
  \/ ReentrantCall

Spec == Init /\ [][Next]_vars

\* the settings handlers on top of runs and passes
NextSettings ==
  \/ RunTimer
  \/ ToggleGrouping
  \/ AddGroup
  \/ RemoveGroup
  \/ GroupsSaved
  \/ PassContainer
  \/ PassEnd

SpecSettings == Init /\ [][NextSettings]_vars

\* the group manager modal on top of runs and passes
NextModal ==
  \/ RunTimer
  \/ ModalAddGroup
  \/ RemoveGroup
  \/ GroupsSaved
  \/ PassContainer
  \/ PassEnd

SpecModal == Init /\ [][NextModal]_vars

\* navigation of the foreign page on top of runs, the observer and passes
NextNav ==
  \/ RunTimer
  \/ ObserverCallback
  \/ DebounceFire
  \/ Navigate
  \/ NavObserverCallback
  \/ NavTimerFire
  \/ PassContainer
  \/ PassEnd

SpecNav == InitNav /\ [][NextNav]_vars

\* teardown on top of runs, the observer, navigation and passes
NextStop ==
  \/ RunTimer
  \/ ObserverCallback
  \/ DebounceFire
  \/ Navigate
  \/ NavObserverCallback
  \/ NavTimerFire
  \/ PassContainer
  \/ PassEnd
  \/ Destroy

SpecStop == InitNav /\ [][NextStop]_vars

\* the foreign page changes its location a second time before it has touched
\* the document: a redirect (history.replaceState) that follows a navigation
\* which has kept the document
Redirect ==
  /\ Idle
  /\ last.op = "navigate" /\ last.kept
  /\ location' = location + 1
  /\ quiet' = FALSE
  /\ last' = [op |-> "redirect"]
  /\ UNCHANGED <<existingControls, domVars, passVars, setVars, watchVars, repoPage,
                 currentUrl, navObserver, currentActiveGroup, pureVars>>

\* navigation with redirects on top of runs and passes
NextDetect ==
  \/ RunTimer
  \/ Navigate
  \/ Redirect
  \/ NavObserverCallback
  \/ NavTimerFire
  \/ PassContainer
  \/ PassEnd

SpecDetect == InitNav /\ [][NextDetect]_vars

\* the observer with the records of each batch, on top of runs and passes
NextWatch ==
  \/ RunTimer
  \/ ObserverBatch
  \/ DebounceFire
  \/ PassContainer
  \/ PassEnd

SpecWatch == InitNav /\ [][NextWatch]_vars

\* runs and passes in which the processing of a container may throw
NextFaults ==
  \/ RunTimer
  \/ PassContainer
  \/ PassThrow
  \/ PassEnd

SpecFaults == Init /\ [][NextFaults]_vars

----------------------------------------------------------------------------
(* The pipeline on a page that does not change and with a user who does
   nothing: the only mutation records are those of the nodes the pipeline
   adds itself *)

\* the observer holds records of nodes added by the pass that has just
\* ended; they are delivered before any timer fires
RecordsQueued == observer /\ last.op = "passEnd" /\ last.mutated

\* the MutationObserver callback of setupMutationObserver for the records of
\* the nodes that run, the debounced callback and the pass have added
SelfObserverCallback ==
  /\ RecordsQueued
  /\ IF observerGuard
     THEN /\ last' = [op |-> "observerIgnored", batch |-> "added"]
          /\ UNCHANGED <<debounceTimer, timers, burst>>
     ELSE /\ burst < MaxBurst
          /\ armDebounce
          /\ burst' = burst + 1
          /\ last' = [op |-> "observer", batch |-> "added"]
  /\ UNCHANGED <<existingControls, domVars, passVars, setVars, observer, navVars,
                 currentActiveGroup, quiet, pureVars>>

QuietRunTimer == ~RecordsQueued /\ RunTimer

QuietDebounceFire == ~RecordsQueued /\ DebounceFire

QuietAutoShowFire == ~RecordsQueued /\ AutoShowFire

NextQuiet ==
  \/ QuietRunTimer
  \/ SelfObserverCallback
  \/ QuietDebounceFire
  \/ QuietAutoShowFire
  \/ PassContainer
  \/ PassEnd

SpecQuiet == Init /\ [][NextQuiet]_vars

----------------------------------------------------------------------------
(* A page whose lists are empty at first and are filled by the page later *)

\* state after init() on the page with the two empty lists
InitLate ==
  /\ InitCommon
  /\ doc = PageDoc("empty", 0)
  /\ repoPage = TRUE
  /\ groupingEnabled \in BOOLEAN
  /\ customGroups = <<>>
  /\ timers = {[id |-> 1, kind |-> "run", el |-> <<>>, gid |-> NoGid],
               [id |-> 2, kind |-> "run", el |-> <<>>, gid |-> NoGid]}
  /\ gItems = <<>>

\* the items the page puts into a list: of two groups, or of one
LateItems == {<<Item(1), Item(2), Item(3)>>, <<Item(4), Item(6)>>}

\* the foreign page appends items to one of its lists that holds none
PageFills ==
  /\ Idle
  /\ \E k \in 1..Len(doc), items \in LateItems :
       /\ ItemsIn(doc[k]) = <<>>
       /\ doc' = [doc EXCEPT ![k].kids = @ \o items]
       /\ last' = [op |-> "pageFills", el |-> doc[k].eid]
  /\ quiet' = FALSE
  /\ UNCHANGED <<existingControls, processedContainers, passVars, setVars, watchVars,
                 navVars, currentActiveGroup, pureVars>>

NextLate ==
  \/ RunTimer
  \/ PageFills
  \/ ObserverCallback
  \/ DebounceFire
  \/ AutoShowFire
  \/ PassContainer
  \/ PassEnd

SpecLate == InitLate /\ [][NextLate]_vars

\* state after init() on the page with one empty list, grouping enabled
InitEdits ==
  /\ InitCommon
  /\ doc = PageDoc("bare", 0)
  /\ repoPage = TRUE
  /\ groupingEnabled = TRUE
  /\ customGroups = <<>>
  /\ timers = {[id |-> 1, kind |-> "run", el |-> <<>>, gid |-> NoGid],
               [id |-> 2, kind |-> "run", el |-> <<>>, gid |-> NoGid]}
  /\ gItems = <<>>

\* edits of the custom groups while the page fills its lists
NextEdits ==
  \/ RunTimer
  \/ PageFills
  \/ AddGroup
  \/ RemoveGroup
  \/ GroupsSaved
  \/ PassContainer
  \/ PassEnd

SpecEdits == InitEdits /\ [][NextEdits]_vars

----------------------------------------------------------------------------
(* Selection on a page with two grouped lists *)

\* state after init() on the page with the pair of lists, grouping enabled
InitSelect ==
  /\ InitCommon
  /\ doc = PageDoc("pair", 0)
  /\ repoPage = TRUE
  /\ groupingEnabled = TRUE
  /\ customGroups = <<>>
  /\ timers = {[id |-> 1, kind |-> "run", el |-> <<>>, gid |-> NoGid],
               [id |-> 2, kind |-> "run", el |-> <<>>, gid |-> NoGid]}
  /\ gItems = <<>>

\* group identifiers handed to showGroupRepos: the groups of the two lists
\* and one that no list has
ShowIds == {ALL, GENERAL, <<"A", "b">>, <<"C", "d">>, <<"Z", "z">>}

\* GroupDisplayManager.showGroupRepos(groupId, container) called for a
\* reorganized list element and any group identifier
ShowGroup ==
  /\ Idle
  /\ \E k \in 1..Len(DocLists), groupId \in ShowIds :
       LET container == DocLists[k]
       IN /\ HasCardsSection(container)
          /\ doc' = ReplaceInSeq(doc, container.eid, showGroupRepos(groupId, container))
          /\ currentActiveGroup' = groupId
          /\ last' = [op |-> "show", el |-> container.eid, gid |-> groupId,
                      before |-> container]
  /\ quiet' = FALSE
  /\ UNCHANGED <<existingControls, processedContainers, passVars, setVars, watchVars, navVars, pureVars>>

NextSelect ==
  \/ RunTimer
  \/ PassContainer
  \/ PassEnd
  \/ AutoShowFire
  \/ UserSelect
  \/ ShowGroup

SpecSelect == InitSelect /\ [][NextSelect]_vars

----------------------------------------------------------------------------
(* extractGroups on its own: any list of distinct items, any custom groups *)

ItemLists ==
  {s \in UNION {[1..n -> {Item(i) : i \in 1..MaxItems}] : n \in 0..MaxLen} :
     \A a, b \in 1..Len(s) : a # b => s[a] # s[b]}

InitGroups ==
  /\ InitCommon
  /\ doc = <<>>
  /\ repoPage = FALSE
  /\ groupingEnabled = TRUE
  /\ customGroups \in {<<>>, <<<<"A", "B">>>>, <<<<"x">>, <<"a">>>>}
  /\ timers = {}
  /\ gItems \in ItemLists

ExtractGroups ==
  /\ last.op = "init"
  /\ gGroups' = extractGroups(gItems, GmSet)
  /\ last' = [op |-> "extractGroups"]
  /\ UNCHANGED <<existingControls, domVars, passVars, setVars, watchVars, navVars, currentActiveGroup,
                 quiet, gItems, gName, storage>>

NextGroups == ExtractGroups

SpecGroups == InitGroups /\ [][NextGroups]_vars

----------------------------------------------------------------------------
(* getGroupName on its own: any name over a small alphabet, any custom groups *)

MaxName == 5

NameChars == {"a", "B", "-", "."}

Names == UNION {[1..n -> NameChars] : n \in 0..MaxName}

\* custom groups as the modal adds them: trimmed, non-empty, distinct
NameCustomGroups ==
  {<<>>,
   <<<<"a">>, <<"a", "b">>>>,
   <<<<"A", "b">>, <<"b", "-">>>>,
   <<<<"B", ".">>>>}

\* the orchestrator at rest: no pass, no observer, no timer
InitAtRest ==
  /\ existingControls = FALSE
  /\ isProcessing = FALSE
  /\ pass = NoPass
  /\ activePasses = 0
  /\ gmCustomGroups = [shared |-> TRUE, set |-> <<>>]
  /\ observer = FALSE
  /\ debounceTimer = 0
  /\ timers = {}
  /\ location = 0
  /\ currentUrl = 0
  /\ navObserver = FALSE
  /\ repoPage = FALSE
  /\ groupingEnabled = TRUE
  /\ currentActiveGroup = NoGid
  /\ quiet = FALSE
  /\ burst = 0
  /\ last = [op |-> "init"]
  /\ gGroups = <<>>
  /\ gItems = <<>>

InitNames ==
  /\ InitAtRest
  /\ storage = NoStorage
  /\ processedContainers = {}
  /\ doc = <<>>
  /\ customGroups \in NameCustomGroups
  /\ gName \in Names

GetGroupName ==
  /\ last.op = "init"
  /\ last' = [op |-> "getGroupName", result |-> getGroupName(gName, GmSet)]
  /\ UNCHANGED <<existingControls, domVars, passVars, setVars, watchVars, navVars, currentActiveGroup,
                 quiet, pureVars>>

NextNames == GetGroupName

SpecNames == InitNames /\ [][NextNames]_vars

----------------------------------------------------------------------------
(* findRepositoryContainers on its own: any page of up to MaxSlots lists, any
   claimed cache *)

MaxSlots == 3

\* the list elements a page may hold in slot k: one that the id selector
\* finds, one that '.js-repo-list' finds, one that an attribute selector and
\* '.js-repo-list' both find, one that holds no item, one that no selector finds
SlotLists(k) ==
  {Container(<<k, 0>>, 1, {}, <<Item(k), Furn(k)>>),
   Container(<<k, 0>>, 0, {ClsRepoList}, <<Item(k)>>),
   Container(<<k, 0>>, 4, {ClsRepoList}, <<Item(k), Item(k + MaxSlots)>>),
   Container(<<k, 0>>, 1, {}, <<Furn(k)>>),
   Container(<<k, 0>>, 0, {}, <<Item(k)>>)}

\* the pages: for each slot one of its list elements or none
RECURSIVE FinderDocs(_)
FinderDocs(k) ==
  IF k = 0 THEN {<<>>}
  ELSE {d \o tl : d \in FinderDocs(k - 1), tl \in {<<>>} \cup {<<l>> : l \in SlotLists(k)}}

InitFinder ==
  /\ InitAtRest
  /\ storage = NoStorage
  /\ customGroups = <<>>
  /\ gName = <<>>
  /\ doc \in FinderDocs(MaxSlots)
  /\ processedContainers \in SUBSET {doc[k].eid : k \in 1..Len(doc)}

FindContainers ==
  /\ last.op = "init"
  /\ LET f == findRepositoryContainers(processedContainers)
     IN /\ processedContainers' = f.cache
        /\ last' = [op |-> "find", found |-> f.containers, cache |-> processedContainers]
  /\ UNCHANGED <<existingControls, doc, passVars, setVars, watchVars, navVars, currentActiveGroup,
                 quiet, pureVars>>

NextFinder == FindContainers

SpecFinder == InitFinder /\ [][NextFinder]_vars

----------------------------------------------------------------------------
(* displayAllRepos on its own: any container of up to MaxKids children, with
   or without the processed marker *)

MaxKids == 3

DisplayEid == <<9, 0>>

\* the children a container may hold: items, other nodes, a control strip, a
\* holder section with an item in a holder, a nested list with an item
DisplayPool ==
  {Item(1), Item(2), Furn(1), Furn(2),
   [t |-> "cards", owner |-> DisplayEid, cards |-> <<>>],
   [t |-> "repos",
    holders |-> <<newHolder(Container(DisplayEid, 1, {}, <<>>), 1, <<"A", "b">>, <<Item(3)>>)>>],
   Container(Append(DisplayEid, 7), 0, {}, <<Item(4), Furn(3)>>)}

DisplayKids ==
  {s \in UNION {[1..n -> DisplayPool] : n \in 0..MaxKids} :
     \A a, b \in 1..Len(s) : a # b => s[a] # s[b]}

InitDisplay ==
  /\ InitAtRest
  /\ storage = NoStorage
  /\ customGroups = <<>>
  /\ gName = <<>>
  /\ processedContainers = {}
  /\ \E kids \in DisplayKids, marker \in BOOLEAN :
       doc = <<[Container(DisplayEid, 1, {}, kids) EXCEPT !.marker = marker]>>

\* displayAllRepos(container, findRepositoryItems(container))
DisplayAllRepos ==
  /\ last.op = "init"
  /\ LET container == doc[1]
         items     == findRepositoryItems(container)
     IN /\ doc' = <<displayAllRepos(container, items)>>
        /\ last' = [op |-> "displayAllRepos", before |-> container, items |-> items]
  /\ UNCHANGED <<existingControls, processedContainers, passVars, setVars, watchVars, navVars,
                 currentActiveGroup, quiet, pureVars>>

NextDisplay == DisplayAllRepos

SpecDisplay == InitDisplay /\ [][NextDisplay]_vars

----------------------------------------------------------------------------
(* GitLabifier.extractGroupName of content.js on its own: any trimmed name *)

\* extractGroupName that takes a prefix from a hyphen at index 0 too
extractGroupNameFromZero(repoName) ==
  LET hyphenIndex == indexOf(repoName, "-")
  IN IF hyphenIndex >= 0 THEN trim(substring0(repoName, hyphenIndex)) ELSE GENERAL

\* GitLabifier.extractGroupName
extractGroupName(repoName) ==
  LET hyphenIndex == indexOf(repoName, "-")
  IN IF hyphenIndex > 0 THEN trim(substring0(repoName, hyphenIndex)) ELSE GENERAL

LinkChars == {"a", "-", " "}

\* nameLink.textContent.trim(): texts without a space at either end
LinkNames == {n \in UNION {[1..k -> LinkChars] : k \in 0..MaxName} : trim(n) = n}

InitGroupName ==
  /\ InitAtRest
  /\ storage = NoStorage
  /\ customGroups = <<>>
  /\ processedContainers = {}
  /\ doc = <<>>
  /\ gName \in LinkNames

ExtractGroupName ==
  /\ last.op = "init"
  /\ last' = [op |-> "extractGroupName", result |-> extractGroupName(gName)]
  /\ UNCHANGED <<existingControls, domVars, passVars, setVars, watchVars, navVars, currentActiveGroup,
                 quiet, pureVars>>

NextGroupName == ExtractGroupName

SpecGroupName == InitGroupName /\ [][NextGroupName]_vars

----------------------------------------------------------------------------
(* loadSetting and saveSetting on their own: any state of the three layers *)

\* the defaults loadSettings passes: true for groupingEnabled, [] for
\* customGroups
SettingDefaults == {"true", "[]"}

InitStorage ==
  /\ InitAtRest
  /\ customGroups = <<>>
  /\ gName = <<>>
  /\ processedContainers = {}
  /\ doc = <<>>
  /\ storage \in Storages

LoadSetting ==
  /\ last.op \in {"init", "saveSetting"}
  /\ \E defaultValue \in SettingDefaults :
       LET r == loadSetting(storage, defaultValue)
       IN last' = [op |-> "loadSetting", arg |-> defaultValue, threw |-> r.threw,
                   value |-> r.value]
  /\ UNCHANGED <<existingControls, domVars, passVars, setVars, watchVars, navVars, currentActiveGroup,
                 quiet, pureVars>>

SaveSetting ==
  /\ last.op = "init"
  /\ \E value \in SettingValues :
       LET r == saveSetting(storage, value)
       IN /\ storage' = r.st
          /\ last' = [op |-> "saveSetting", arg |-> value, threw |-> r.threw,
                      value |-> value]
  /\ UNCHANGED <<existingControls, domVars, passVars, setVars, watchVars, navVars, currentActiveGroup,
                 quiet, gItems, gName, gGroups>>

NextStorage ==
  \/ LoadSetting
  \/ SaveSetting

SpecStorage == InitStorage /\ [][NextStorage]_vars

----------------------------------------------------------------------------
(* findRepositoryItems on its own: any container of up to MaxKids nodes that
   item selectors match *)

\* the nodes: items with an 'h3 a', an item two selectors match, an item
\* without a name element, items whose name elements differ in selector and
\* text, and a node no item selector matches
FinderPool == {Item(1), Item(2), Item(7), Item(8), Item(9), Item(10), Item(11), Furn(1)}

FinderKids ==
  {s \in UNION {[1..n -> FinderPool] : n \in 0..MaxKids} :
     \A a, b \in 1..Len(s) : a # b => s[a] # s[b]}

InitItems ==
  /\ InitAtRest
  /\ storage = NoStorage
  /\ customGroups = <<>>
  /\ gName = <<>>
  /\ processedContainers = {}
  /\ \E kids \in FinderKids : doc = <<Container(DisplayEid, 1, {}, kids)>>

\* findRepositoryItems(container)
FindItems ==
  /\ last.op = "init"
  /\ last' = [op |-> "findItems", items |-> findRepositoryItems(doc[1])]
  /\ UNCHANGED <<existingControls, domVars, passVars, setVars, watchVars, navVars,
                 currentActiveGroup, quiet, pureVars>>

NextItems == FindItems

SpecItems == InitItems /\ [][NextItems]_vars

----------------------------------------------------------------------------
(* Properties *)

\* number of positions of the sequence s that hold x
Count(s, x) == Cardinality({k \in 1..Len(s) : s[k] = x})

\* C2: partition invariant of extractGroups: every item of the input list is
\* in exactly one group, once, and the groups hold nothing but input items
C2_Partition ==
  last.op = "extractGroups" =>
    /\ \A k \in 1..Len(gItems) :
         Cardinality({g \in 1..Len(gGroups) : gItems[k] \in Range(gGroups[g].items)}) = 1
    /\ \A k \in 1..Len(gItems) : Count(flat(gGroups), gItems[k]) = 1
    /\ Range(flat(gGroups)) = Range(gItems)

\* extractGroups has put three items into two groups
C2_Witness ==
  /\ last.op = "extractGroups"
  /\ Len(gItems) = 3
  /\ Len(gGroups) = 2

\* the holders of a reorganized list element
HoldersOf(c) == c.kids[reposIndex(c)].holders

\* C3: after a successful reorganize every item handed to it is a child of
\* exactly one holder, the one of its group; the 'all' holder holds one copy
\* of each item and none of the items; no item is anywhere else
C3_Relocation ==
  last.op = "reorganize" =>
    LET c       == El(last.el)
        holders == HoldersOf(c)
        allKids == holders[1].kids
    IN /\ holders[1].gid = ALL
       /\ Len(allKids) = Len(last.items)
       /\ \A it \in Range(last.items) :
            /\ Cardinality({k \in 1..Len(holders) : it \in Range(holders[k].kids)}) = 1
            /\ \A k \in 1..Len(holders) :
                 it \in Range(holders[k].kids) =>
                   /\ k > 1
                   /\ holders[k].gid = getGroupName(getRepositoryName(it), GmSet)
            /\ Count(ItemsIn(c), it) = 1
            /\ Count(allKids, Copy(it, "c")) = 1
            /\ it \notin Range(allKids)

\* a list of three items in two groups has just been reorganized
C3_Witness ==
  /\ last.op = "reorganize"
  /\ Len(last.items) = 3
  /\ Len(HoldersOf(El(last.el))) = 3

\* C1: a pass that follows a completed pass, with no change of the page and no
\* user action in between, leaves the document as it found it
C1_Idempotent ==
  (last.op = "passEnd" /\ last.quiet) => doc = last.before

\* the holders below the list element c that are on screen: displayed, and so
\* is every list element between c and them
VisibleHolders(c) ==
  {h \in Range(Lists(c)) :
     /\ IsHolder(h)
     /\ h.eid # c.eid
     /\ \A n \in (Len(c.eid) + 1)..Len(h.eid) :
          LET p == SubSeq(h.eid, 1, n) IN InDoc(p) => El(p).display # "none"}

\* the active cards below the list element c, as <<owner, position>>
ActiveCards(c) ==
  UNION {{<<sec.owner, j>> : j \in {i \in 1..Len(sec.cards) : sec.cards[i].active}} :
           sec \in Range(CardsIn(c))}

ActiveGids(c) ==
  UNION {{sec.cards[j].gid : j \in {i \in 1..Len(sec.cards) : sec.cards[i].active}} :
           sec \in Range(CardsIn(c))}

\* C4: after the user has selected a group of a container, exactly one holder
\* of the container is on screen, the one of that group, and exactly one card
\* is active, the one of that group
C4_Selection ==
  (last.op = "select" /\ last.user) =>
    LET c == El(last.el)
    IN /\ Cardinality(VisibleHolders(c)) = 1
       /\ \A h \in VisibleHolders(c) : h.gid = last.gid
       /\ Cardinality(ActiveCards(c)) = 1
       /\ ActiveGids(c) = {last.gid}

\* C5: the default selection after a reorganize shows the holder of the first
\* real group (the second holder; the first is the 'all' holder) and no other
C5_DefaultSelection ==
  (last.op = "select" /\ ~last.user) =>
    LET c == El(last.el)
    IN /\ Cardinality(VisibleHolders(c)) = 1
       /\ \A h \in VisibleHolders(c) : h.eid = HoldersOf(c)[2].eid

\* C6: after a rollback the container has the classes and the very nodes it
\* had before processing, each once, and no control strip or holder
C6_Rollback ==
  last.op = "rollback" =>
    LET c == El(last.el)
    IN /\ c.cls = last.before.cls
       /\ Range(c.kids) = Range(last.before.kids)
       /\ Len(c.kids) = Len(last.before.kids)
       /\ \A k \in 1..Len(c.kids) : ~IsSection(c.kids[k])

\* C7: passes exclude each other: never two passes at once, the flag is set
\* exactly while a pass runs, and while the flag is set no step starts a pass
\* or arms, cancels or fires the debounce timer
C7_MutualExclusion ==
  /\ [](/\ activePasses <= 1
        /\ (activePasses = 1) = isProcessing
        /\ pass.running => isProcessing)
  /\ [][isProcessing =>
          /\ activePasses' <= activePasses
          /\ Debounce' = Debounce
          /\ debounceTimer' = debounceTimer
          /\ burst' = burst]_vars

\* during a pass that has already processed a container, a call of
\* processRepositories or an observer callback with added nodes was ignored
C7_Witness ==
  /\ isProcessing
  /\ pass.done # <<>>
  /\ \/ last.op = "callIgnored"
     \/ last.op = "observerIgnored" /\ last.batch = "added"

\* C8 as stated: at most one debounce timer is pending, the one debounceTimer
\* names, and the expiry of the timer of a burst starts a pass
C8_OneRunPerBurst ==
  /\ [](/\ Cardinality(Debounce) <= 1
        /\ \A t \in Debounce : t.id = debounceTimer
        /\ (burst > 0) = (Debounce # {}))
  /\ [][(burst > 0 /\ burst' = 0) =>
          /\ Debounce' = {}
          /\ pass'.running /\ pass'.cause = "debounce"
          /\ activePasses' = activePasses + 1]_vars

\* C8: at most one debounce timer is pending, the one debounceTimer names;
\* the expiry of the timer of a burst leaves no debounce timer pending and
\* starts one pass if the page is then a repository page, and nothing otherwise
C8_Coalescing ==
  /\ [](/\ Cardinality(Debounce) <= 1
        /\ \A t \in Debounce : t.id = debounceTimer
        /\ (burst > 0) = (Debounce # {}))
  /\ [][(burst > 0 /\ burst' = 0) =>
          /\ Debounce' = {}
          /\ IF repoPage
             THEN /\ pass'.running /\ pass'.cause = "debounce"
                  /\ activePasses' = activePasses + 1
             ELSE UNCHANGED <<doc, pass, activePasses, isProcessing>>]_vars

\* the timer of a burst of two relevant mutations has expired and started a pass
C8_Witness ==
  /\ last.op = "pass"
  /\ last.cause = "debounce"
  /\ last.burst = MaxBurst
  /\ Debounce = {}

\* the lists of the page d that hold at least one item
WithItems(d) == {k \in 1..Len(d) : Len(findRepositoryItems(d[k])) > 0}

\* C9: the pass that follows a change of the grouping flag or of the custom
\* groups processes every list of the page that holds an item, and leaves it
\* ungrouped when grouping is disabled
C9_Reconcile ==
  (last.op = "passEnd" /\ last.cause \in {"toggle", "groups"}) =>
    \A k \in WithItems(last.before) :
      /\ last.before[k].eid \in Range(last.done)
      /\ ~groupingEnabled => ~HasCardsSection(El(last.before[k].eid))

\* C10: the run that follows a change of the location processes every list
\* that is then on the page and holds an item
C10_NavigationReprocess ==
  (last.op = "passEnd" /\ last.cause = "navigation") =>
    \A k \in WithItems(last.before) : last.before[k].eid \in Range(last.done)

\* the separator types in the order getGroupName tries them
SeparatorOrder == <<"-", "_", "/", ".", " ">>

\* 1-based position of the first ch in s, or 0
FirstPos(s, ch) ==
  IF \E i \in 1..Len(s) : s[i] = ch
  THEN CHOOSE i \in 1..Len(s) : s[i] = ch /\ \A j \in 1..(i - 1) : s[j] # ch
  ELSE 0

\* the entries of the custom groups cg the name s starts with, ignoring case
CustomMatches(s, cg) ==
  {k \in 1..Len(cg) : startsWith(toLowerCase(s), toLowerCase(cg[k]))}

\* the separator types whose first occurrence in s leaves a prefix of two
\* characters or more
ValidSeparators(s) ==
  {k \in 1..Len(SeparatorOrder) : FirstPos(s, SeparatorOrder[k]) >= 3}

\* C14: getGroupName returns a non-empty group name for every name, the empty
\* name included, and every set of custom groups
C14_Totality ==
  last.op = "getGroupName" => last.result # <<>>

\* getGroupName has classified the empty name
C14_Witness ==
  /\ last.op = "getGroupName"
  /\ gName = <<>>
  /\ last.result = GENERAL

\* C15 as stated: every custom group the name starts with, ignoring case, is
\* the result of getGroupName
C15_EveryMatchingEntry ==
  (last.op = "getGroupName" /\ gName # <<>>) =>
    \A k \in CustomMatches(gName, GmSet) : last.result = GmSet[k]

\* C15: when the name starts, ignoring case, with custom groups, getGroupName
\* returns the first of them in the order of the Set, in its own casing,
\* whatever separators the name holds
C15_CustomPrecedence ==
  (last.op = "getGroupName" /\ gName # <<>> /\ CustomMatches(gName, GmSet) # {}) =>
    \E k \in CustomMatches(gName, GmSet) :
      /\ \A j \in CustomMatches(gName, GmSet) : k <= j
      /\ last.result = GmSet[k]

\* the name "aBa-a" has been classified into the custom group "Ab", not into
\* the group "Aba" of its hyphen
C15_Witness ==
  /\ last.op = "getGroupName"
  /\ gName = <<"a", "B", "a", "-", "a">>
  /\ last.result = <<"A", "b">>

\* C16: when no custom group matches, the first separator type in the order
\* hyphen, underscore, slash, period, space whose first occurrence leaves a
\* prefix of two characters or more decides: the result is that prefix in
\* lower case with its first character in upper case
C16_SeparatorPrecedence ==
  (last.op = "getGroupName" /\ gName # <<>> /\ CustomMatches(gName, GmSet) = {}
     /\ ValidSeparators(gName) # {}) =>
    LET k      == CHOOSE k \in ValidSeparators(gName) :
                    \A j \in ValidSeparators(gName) : k <= j
        n      == FirstPos(gName, SeparatorOrder[k]) - 1
        prefix == [i \in 1..n |-> LowerChar(gName[i])]
    IN last.result = [i \in 1..n |-> IF i = 1 THEN UpperChar(prefix[1]) ELSE prefix[i]]

\* the name "aB.a-" has been classified by its hyphen although its period
\* comes first
C16_Witness ==
  /\ last.op = "getGroupName"
  /\ gName = <<"a", "B", ".", "a", "-">>
  /\ customGroups = <<>>
  /\ last.result = <<"A", "b", ".", "a">>

\* C17: getGroupName returns "General" for the empty name and for a name that
\* no custom group matches and in which no separator type leaves a prefix of
\* two characters or more; "aB-a" is classified as "Ab"
C17_MinimumPrefix ==
  last.op = "getGroupName" =>
    /\ gName = <<>> => last.result = GENERAL
    /\ (CustomMatches(gName, GmSet) = {} /\ ValidSeparators(gName) = {}) =>
         last.result = GENERAL
    /\ (CustomMatches(gName, GmSet) = {} /\ gName = <<"a", "B", "-", "a">>) =>
         last.result = <<"A", "b">>

\* the name "a-B", whose hyphen leaves a prefix of one character, has been
\* classified as "General"
C17_Witness ==
  /\ last.op = "getGroupName"
  /\ gName = <<"a", "-", "B">>
  /\ customGroups = <<>>
  /\ last.result = GENERAL

\* position of the item x in the input list of extractGroups
PosOf(x) == CHOOSE k \in 1..Len(gItems) : gItems[k] = x

\* C18: extractGroups keeps the order of the input: the groups are in the
\* order of their first items, and the items of a group are in the order they
\* have in the input list
C18_OrderPreserved ==
  last.op = "extractGroups" =>
    /\ \A a, b \in 1..Len(gGroups) :
         a < b => PosOf(gGroups[a].items[1]) < PosOf(gGroups[b].items[1])
    /\ \A g \in 1..Len(gGroups) :
         \A i, j \in 1..Len(gGroups[g].items) :
           i < j => PosOf(gGroups[g].items[i]) < PosOf(gGroups[g].items[j])

\* extractGroups has put the first and the third item of the list into the
\* first group and the second item into the second group
C18_Witness ==
  /\ last.op = "extractGroups"
  /\ Len(gItems) = 3
  /\ Len(gGroups) = 2
  /\ gGroups[1].items = <<gItems[1], gItems[3]>>
  /\ gGroups[2].items = <<gItems[2]>>

\* C19: a container whose items fall into one group at most, or any container
\* when grouping is disabled, is shown through the ungrouped display path: its
\* items first, then its other children, no control strip, no holder, its
\* classes as they were; a container is reorganized only when grouping is
\* enabled and its items fall into two groups or more
C19_Degenerate ==
  /\ last.op = "displayAll" =>
       LET c == El(last.el)
       IN /\ ~groupingEnabled \/ Len(extractGroups(last.items, GmSet)) <= 1
          /\ c.cls = last.before.cls
          /\ \A k \in 1..Len(c.kids) : c.kids[k].t \in {"item", "furn"}
          /\ c.kids = last.items
                        \o SelectNodes(last.before.kids,
                                       Range(last.before.kids) \ Range(last.items))
  /\ last.op \in {"reorganize", "rollback"} =>
       groupingEnabled /\ Len(extractGroups(last.items, GmSet)) > 1

\* with grouping enabled, the list of the items "x" and "y" has been shown
\* through the ungrouped display path
C19_Witness ==
  /\ last.op = "displayAll"
  /\ groupingEnabled
  /\ Len(last.items) = 2
  /\ getGroupName(getRepositoryName(last.items[1]), GmSet) = GENERAL
  /\ getGroupName(getRepositoryName(last.items[2]), GmSet) = GENERAL

\* sum of the counts of the cards
RECURSIVE SumCounts(_)
SumCounts(cards) == IF cards = <<>> THEN 0 ELSE Head(cards).count + SumCounts(Tail(cards))

\* C20: after a reorganize the first child of the container is the control
\* strip: the 'all' card with the number of items, then one card per group in
\* the order of the groups, each with the name and the size of its group
C20_ControlStrip ==
  last.op = "reorganize" =>
    LET strip  == El(last.el).kids[1]
        groups == extractGroups(last.items, GmSet)
    IN /\ strip.t = "cards"
       /\ Len(strip.cards) = Len(groups) + 1
       /\ strip.cards[1].gid = ALL
       /\ strip.cards[1].count = Len(last.items)
       /\ strip.cards[1].count = SumCounts(Tail(strip.cards))
       /\ \A k \in 1..Len(groups) :
            /\ strip.cards[k + 1].gid = groups[k].name
            /\ strip.cards[k + 1].count = Len(groups[k].items)

\* a control strip of three cards with the counts 3, 2 and 1 has been built
C20_Witness ==
  /\ last.op = "reorganize"
  /\ Len(El(last.el).kids[1].cards) = 3
  /\ El(last.el).kids[1].cards[1].count = 3
  /\ El(last.el).kids[1].cards[2].count = 2
  /\ El(last.el).kids[1].cards[3].count = 1

\* the list elements of the document that a container selector finds and
\* that hold an item
Acceptable ==
  {DocLists[k].eid : k \in {j \in 1..Len(DocLists) :
     /\ \E sel \in 1..NumContainerSelectors : matchesContainerSelector(DocLists[j], sel)
     /\ Len(findRepositoryItems(DocLists[j])) > 0}}

\* C13: findRepositoryContainers returns the list elements that a selector
\* finds, that hold an item and that were not in the claimed cache, each once,
\* and has added them to the cache
C13_Acceptance ==
  last.op = "find" =>
    /\ Range(last.found) = Acceptable \ last.cache
    /\ \A i, j \in 1..Len(last.found) : i # j => last.found[i] # last.found[j]
    /\ processedContainers = last.cache \cup Range(last.found)

\* a list that two selectors find has been returned, and a list with an
\* item that was in the cache has not
C13_Witness ==
  /\ last.op = "find"
  /\ \E k \in 1..Len(doc) :
       /\ doc[k].sel = 4 /\ ClsRepoList \in doc[k].cls
       /\ doc[k].eid \in Range(last.found)
  /\ \E k \in 1..Len(doc) :
       /\ doc[k].eid \in Acceptable \cap last.cache
       /\ doc[k].eid \notin Range(last.found)

\* C11: when the processing of a container has thrown, every other container
\* discovered in the pass has been processed by the end of the pass and
\* carries the marker
C11_Isolation ==
  last.op = "passEnd" =>
    \A k \in 1..Len(last.found) :
      (last.found[k] # last.threw /\ InDoc(last.found[k])) => El(last.found[k]).marker

\* C12: while no pass is running every claimed container of the document
\* carries the marker and holds each of its items once
C12_ClaimedCompleted ==
  ~pass.running =>
    \A eid \in processedContainers :
      InDoc(eid) =>
        /\ El(eid).marker
        /\ \A it \in Range(ItemsIn(El(eid))) : Count(ItemsIn(El(eid)), it) = 1

\* the view state the program has recorded for the list element eid:
\* GroupDisplayManager keeps one currentActiveGroup, whatever the container
RecordedViewState(eid) == currentActiveGroup

\* the reorganized list elements of the document
GroupedContainers == {DocLists[k].eid : k \in {j \in 1..Len(DocLists) : HasCardsSection(DocLists[j])}}

\* C21: the view state is kept per container: a selection in container A
\* records the group as the view state of A and leaves the recorded view
\* state, the visible holders and the active cards of every other container
\* as they were
C21_KeyedByContainer ==
  [][last'.op \in {"select", "show"} =>
       /\ RecordedViewState(last'.el)' = last'.gid
       /\ \A b \in GroupedContainers \ {last'.el} :
            /\ RecordedViewState(b)' = RecordedViewState(b)
            /\ VisibleHolders(El(b))' = VisibleHolders(El(b))
            /\ ActiveCards(El(b))' = ActiveCards(El(b))]_vars

\* the holders and the active cards of a list element value
HoldersShown(c) == {k \in 1..Len(HoldersOf(c)) : HoldersOf(c)[k].display # "none"}
CardsActive(c) == {j \in 1..Len(c.kids[1].cards) : c.kids[1].cards[j].active}

\* C22: showGroupRepos for a group the container has no holder of leaves no
\* holder of the container on screen and no card active
C22_AbsentGroup ==
  (last.op = "show" /\ holdersOf(last.before.kids[reposIndex(last.before)], last.gid) = <<>>) =>
    /\ VisibleHolders(El(last.el)) = {}
    /\ ActiveCards(El(last.el)) = {}

\* a group that the list has no holder of has been selected while a holder
\* of the list was shown and a card was active
C22_Witness ==
  /\ last.op = "show"
  /\ holdersOf(last.before.kids[reposIndex(last.before)], last.gid) = <<>>
  /\ HoldersShown(last.before) # {}
  /\ CardsActive(last.before) # {}

\* destroy has been called: init connects the navigation observer and only
\* destroy disconnects it
Destroyed == ~navObserver

\* C23: after destroy both observers stay disconnected and no pass starts,
\* whatever timer was pending when destroy was called
C23_Teardown ==
  /\ [](Destroyed => (~observer /\ ~navObserver))
  /\ [][Destroyed => ~(pass'.running /\ ~pass.running)]_vars

\* what tells a node from the others whatever it holds: the element id of a
\* list element, the node itself otherwise
NodeId(n) == IF n.t = "list" THEN <<"list", n.eid>> ELSE n

NodeIds(s) == [k \in 1..Len(s) |-> NodeId(s[k])]

\* C24: displayAllRepos on a container without the marker leaves as the
\* children of the container the items in the order of discovery, each once
\* and nowhere else below the container, followed by the former children that
\* are neither items nor sections, in their former order
C24_UngroupedOrder ==
  (last.op = "displayAllRepos" /\ ~last.before.marker) =>
    LET c      == doc[1]
        former == SelectNodes(last.before.kids,
                    {n \in Range(last.before.kids) :
                       n \notin Range(last.items) /\ ~IsSection(n)})
    IN /\ NodeIds(c.kids) = NodeIds(last.items \o former)
       /\ \A it \in Range(last.items) : Count(ItemsIn(c), it) = 1

\* a container that held a holder section with an item, another node and an
\* item, in this order, has been flattened
C24_Witness ==
  /\ last.op = "displayAllRepos"
  /\ ~last.before.marker
  /\ Len(last.before.kids) = 3
  /\ last.before.kids[1].t = "repos"
  /\ last.before.kids[2].t = "furn"
  /\ last.before.kids[3].t = "item"
  /\ Len(last.items) = 2

\* C25: displayAllRepos on a container that carries the marker changes
\* nothing: the container keeps its children, every item its parent
C25_ProcessedNoOp ==
  (last.op = "displayAllRepos" /\ last.before.marker) => doc = <<last.before>>

\* displayAllRepos has been called on a marked container that holds a holder
\* section and an item that comes after another node
C25_Witness ==
  /\ last.op = "displayAllRepos"
  /\ last.before.marker
  /\ Len(last.before.kids) = 3
  /\ last.before.kids[1].t = "repos"
  /\ last.before.kids[2].t = "furn"
  /\ last.before.kids[3].t = "item"

\* C26: while no pass is running, a claimed container of the document carries
\* the grouped class exactly if it holds the control strip and the holder
\* section, and every claimed container carries the processed marker
C26_MarkersTruth ==
  ~pass.running =>
    \A eid \in processedContainers :
      InDoc(eid) =>
        /\ (ClsGrouped \in El(eid).cls) = (HasCardsSection(El(eid)) /\ reposIndex(El(eid)) # 0)
        /\ El(eid).marker

\* a layer holds a value for the key; a read of the layer fails
DbHolds(st) == st.db = "ok" /\ st.row # NoRow
LsHolds(st) == st.ls = "ok" /\ parse(st.lsText).out = "return"
CkHolds(st) == st.ck = "ok" /\ parse(st.ckText).out = "return"
LsFails(st) == st.ls = "throws" \/ st.lsText = Corrupt
CkFails(st) == st.ck = "throws" \/ st.ckText = Corrupt

\* reading fails before a layer has given a value
ReadFails(st) ==
  \/ st.db = "fails"
  \/ ~DbHolds(st) /\ LsFails(st)
  \/ ~DbHolds(st) /\ ~LsHolds(st) /\ CkFails(st)

\* C27: loadSetting does not throw, and returns the default when no layer
\* holds a value for the key or reading fails; saveSetting does not throw,
\* whatever layers reject the write
C27_StorageTolerated ==
  /\ last.op = "loadSetting" =>
       /\ ~last.threw
       /\ ((~DbHolds(storage) /\ ~LsHolds(storage) /\ ~CkHolds(storage))
             \/ ReadFails(storage)) => last.value = last.arg
  /\ last.op = "saveSetting" => ~last.threw

\* with every layer rejecting, loadSetting has returned the default
C27_Witness ==
  /\ last.op = "loadSetting"
  /\ storage.db = "fails" /\ storage.ls = "throws" /\ storage.ck = "throws"
  /\ ~last.threw
  /\ last.value = last.arg

Relevant(mutations) ==
  \E k \in 1..Len(mutations) :
    mutations[k].type = "childList" /\ mutations[k].addedNodes >= 1

\* C29: the callback of the observer arms the debounce timer exactly if the
\* batch holds a childList record with an added node and the processing flag
\* is clear; otherwise it leaves the observer, the pending timers and
\* debounceTimer as they were
C29_RelevanceFilter ==
  [][last'.op \in {"batch", "batchIgnored"} =>
       LET armed == /\ debounceTimer' # debounceTimer
                    /\ \E t \in timers' \ timers :
                         t.kind = "debounce" /\ t.id = debounceTimer'
       IN /\ armed = (Relevant(last'.mutations) /\ ~isProcessing)
          /\ ~armed => UNCHANGED <<observer, debounceTimer, timers, burst>>]_vars

\* a batch of a removal and an addition has armed the timer again while the
\* timer of an earlier batch was pending
C29_Witness ==
  /\ last.op = "batch"
  /\ Len(last.mutations) = 2
  /\ last.mutations[1].addedNodes = 0
  /\ last.mutations[2].addedNodes = 1
  /\ burst = 2
  /\ Cardinality(Debounce) = 1

\* C30: a call of processRepositories that ran a pass returns without an
\* exception and with the flag cleared, whether the pass processed its
\* containers, found none, or the processing of a container threw; the flag
\* is not set while no pass is running
C30_FlagReleased ==
  /\ last.op = "passEnd" => (~last.escaped /\ ~isProcessing /\ activePasses = 0)
  /\ ~pass.running => ~isProcessing

\* a pass in which the processing of the first of two containers threw has
\* ended
C30_Witness ==
  /\ last.op = "passEnd"
  /\ Len(last.found) = 2
  /\ last.threw = last.found[1]
  /\ ~isProcessing

\* the watcher is at rest: no pass runs, no debounce timer is pending and no
\* record waits for delivery
Quiescent == Idle /\ Debounce = {} /\ ~RecordsQueued

\* C31: on a page that does not change and with a user who does nothing, a
\* pass started by the debounce timer, which only the nodes added by the
\* pipeline have armed, leaves the document as it is; it is the last pass of
\* the chain: when it ends the watcher is at rest; and once the watcher is at
\* rest with no run of init() to come, it stays at rest
C31_Quiescence ==
  /\ [][(pass.running /\ pass.cause = "debounce") => doc' = doc]_vars
  /\ []((last.op = "passEnd" /\ last.cause = "debounce") => Quiescent)
  /\ [][(Quiescent /\ \A t \in timers : t.kind # "run") => Quiescent']_vars

\* the pending timers of the navigation handler
NavTimers == {t \in timers : t.kind = "nav"}

\* what a callback of the navigation observer does: it schedules the
\* navigation handler, once, exactly if the location differs from the recorded
\* one, and the recorded location is the current one afterwards; the handler,
\* when its timer fires, runs once
DetectionRule ==
  /\ [][last'.op \in {"urlChanged", "urlSame"} =>
         /\ timers \subseteq timers'
         /\ Cardinality(timers' \ timers) = (IF location # currentUrl THEN 1 ELSE 0)
         /\ timers' \ timers \subseteq NavTimers'
         /\ currentUrl' = location]_vars
  /\ [][NavTimers' # NavTimers /\ last'.op \notin {"urlChanged", "urlSame"} =>
         /\ Cardinality(NavTimers \ NavTimers') = 1
         /\ NavTimers' \subseteq NavTimers
         /\ last'.op \in {"pass", "runSkipped"}
         /\ last'.cause = "navigation"]_vars

\* C32 as stated: the detection rule, and as many re-runs as location
\* changes: a callback that schedules the handler has seen one change of the
\* location since the recorded one
C32_OncePerChange ==
  /\ DetectionRule
  /\ [][last'.op = "urlChanged" => location = currentUrl + 1]_vars

\* C32: a callback of the navigation observer schedules the navigation
\* handler exactly if the location differs from the recorded one, and records
\* the location; each such detection causes one delayed re-run, whatever
\* number of location changes lies between two callbacks, and a mutation
\* without a difference causes none
C32_OncePerDetection == DetectionRule

\* after a detected location change, with the re-run still pending, a further
\* mutation has scheduled nothing
C32_Witness ==
  /\ last.op = "urlSame"
  /\ location = 1 /\ currentUrl = 1
  /\ Cardinality(NavTimers) = 1

\* C33: findRepositoryItems returns no node twice, returns exactly the nodes
\* matched by an item selector for which getRepositoryName finds a name, and
\* so every node it returns has a non-empty name
C33_ItemDiscovery ==
  last.op = "findItems" =>
    /\ \A a, b \in 1..Len(last.items) : a # b => last.items[a] # last.items[b]
    /\ \A it \in Range(last.items) : getRepositoryName(it) # <<>>
    /\ \A x \in Range(ItemsIn(doc[1])) :
         x \in Range(last.items) <=> getRepositoryName(x) # <<>>

\* C34: after the user has selected a group of a container, a step that is
\* neither a selection by the user nor the processing of that container
\* leaves the holders of the container that are on screen and its active
\* cards as they are
C34_SelectionKept ==
  [][(/\ last.op = "select" /\ last.user
      /\ ~(last'.op = "select" /\ last'.user)
      /\ ~(last'.op \in {"reorganize", "displayAll", "rollback"} /\ last'.el = last.el))
       => \A c \in {last.el} :
            /\ VisibleHolders(El(c))' = VisibleHolders(El(c))
            /\ ActiveCards(El(c))' = ActiveCards(El(c))]_vars

\* C35: a list that a container selector finds and that holds no item is not
\* in the claimed cache and carries no marker, and is not among the
\* containers a pass has found; at the end of a pass every list that held an
\* item when the pass started is claimed and marked, and the pass has
\* processed it unless an earlier pass had
C35_EmptyStaysEligible ==
  /\ \A k \in 1..Len(doc) :
       ItemsIn(doc[k]) = <<>> =>
         /\ doc[k].eid \notin processedContainers
         /\ ~doc[k].marker
         /\ doc[k].eid \notin Range(pass.found)
  /\ last.op = "passEnd" =>
       \A k \in WithItems(last.before) :
         /\ last.before[k].eid \in processedContainers
         /\ El(last.before[k].eid).marker
         /\ ~last.before[k].marker => last.before[k].eid \in Range(last.done)

\* a pass that ran while both lists were empty has ended without a
\* container; a later pass has processed the list the page had filled in
\* between, while the other list is still empty
C35_Witness ==
  /\ last.op = "passEnd"
  /\ last.cause = "debounce"
  /\ Len(last.done) = 1
  /\ \E k \in 1..Len(doc) : ItemsIn(doc[k]) = <<>>
  /\ Cardinality({t \in timers : t.kind = "run"}) = 1

\* C36: the add handler is called exactly for a value whose trimmed form is
\* non-empty and not yet in the custom set, and with that trimmed form; the
\* custom set never holds the empty name nor a name twice; any other attempt
\* leaves the set, the saves in flight, the classifier, the claimed cache and
\* the document as they were
C36_GuardedAdd ==
  /\ [](\A k \in 1..Len(customGroups) :
         /\ customGroups[k] # <<>>
         /\ \A j \in 1..Len(customGroups) : customGroups[j] = customGroups[k] => j = k)
  /\ [][last'.op = "addGroup" =>
         /\ last'.name = trim(last'.value)
         /\ last'.name # <<>>
         /\ last'.name \notin Range(customGroups)
         /\ customGroups' = Append(customGroups, last'.name)]_vars
  /\ [][last'.op = "addIgnored" =>
         /\ trim(last'.value) = <<>> \/ trim(last'.value) \in Range(customGroups)
         /\ UNCHANGED <<customGroups, gmCustomGroups, timers, doc, processedContainers,
                        pass, storage>>]_vars

\* the name "x" has been added from a padded value and a pass has grouped
\* with it; a second attempt to add it, padded on the other side, has just
\* been ignored
C36_Witness ==
  /\ last.op = "addIgnored"
  /\ last.value = <<"x", " ">>
  /\ customGroups = <<<<"x">>>>
  /\ GmSet = customGroups
  /\ Saves = {}
  /\ \E k \in 1..Len(doc) : doc[k].marker

\* C37: whenever no save of the custom groups is in flight, the set the
\* GroupManager classifies with equals the orchestrator's set, in the same
\* order; a re-run started by an edit runs with the two sets equal, neither
\* set changes while a pass runs, and the control strip such a re-run builds
\* has one card per group of the items under the orchestrator's set
C37_Convergence ==
  /\ [](Saves = {} => GmSet = customGroups)
  /\ []((pass.running /\ pass.cause = "groups") => GmSet = customGroups)
  /\ [][pass.running => UNCHANGED <<customGroups, gmCustomGroups>>]_vars
  /\ []((last.op = "reorganize" /\ pass.cause = "groups") =>
          LET strip  == El(last.el).kids[1]
              groups == extractGroups(last.items, customGroups)
          IN /\ Len(strip.cards) = Len(groups) + 1
             /\ \A k \in 1..Len(groups) : strip.cards[k + 1].gid = groups[k].name)

\* no save is in flight any more; the GroupManager classifies with its own
\* copy of the set, which holds "AB" alone, and the re-run of the edit that
\* settled last has grouped the list the page had filled under that set
C37_Witness ==
  /\ last.op = "passEnd"
  /\ last.cause = "groups"
  /\ Len(last.done) = 1
  /\ Saves = {}
  /\ customGroups = <<<<"A", "B">>>>
  /\ ~gmCustomGroups.shared
  /\ \E k \in 1..Len(doc) :
       /\ doc[k].eid \in Range(last.done)
       /\ ClsGrouped \in doc[k].cls
       /\ doc[k].kids[1].cards[2].gid = <<"A", "B">>

\* the item nodes of the page itself below the node n: no copies
Originals(n) == SelectSeq(ItemsIn(n), LAMBDA it : it.tag = <<>>)

\* the list elements below the container c of which the node it is a child
ParentsOf(c, it) == {h \in Range(Lists(c)) : it \in Range(h.kids)}

\* every item node of the page is below its container once, as a child of
\* the container itself or of a holder other than the 'all' holder
PresentOnce ==
  \A k \in 1..Len(doc) :
    \A it \in Range(Originals(doc[k])) :
      /\ Count(ItemsIn(doc[k]), it) = 1
      /\ \A h \in ParentsOf(doc[k], it) : h.eid = doc[k].eid \/ (IsHolder(h) /\ h.gid # ALL)

\* no step takes an item node of the page away from its container
NoneLost ==
  [][\A k \in 1..Len(doc) :
       k <= Len(doc') /\ doc'[k].eid = doc[k].eid =>
         Range(Originals(doc[k])) \subseteq Range(Originals(doc'[k]))]_vars

\* the items a pass groups or displays are item nodes of the page
CopiesNotRegrouped ==
  last.op \in {"reorganize", "displayAll", "rollback"} =>
    \A it \in Range(last.items) : it.tag = <<>>

\* C38: in a document whose items the page neither adds nor removes, every
\* item node of the page stays below its container exactly once, in a real
\* holder or as a direct child, and no pass takes the copies of the 'all'
\* holder for items
C38_Conservation ==
  /\ []PresentOnce
  /\ NoneLost
  /\ []CopiesNotRegrouped

====
